---- MODULE Spec2Model ----
(***************************************************************************)
(* xcbridge: the job registry (src/state.rs), the job driver and the log   *)
(* observer (src/handlers/build.rs, src/handlers/test.rs) and the process  *)
(* runner (src/xcode/xcodebuild.rs).                                       *)
(*                                                                         *)
(* The specifications share the registry operators:                        *)
(*   SpecReg      the registry's methods called directly, in any order;    *)
(*   SpecReclaim  the same on more ids, without appends;                   *)
(*   Spec         the service: job start, the job task (runner, log        *)
(*                collector, finalization), cancellation requests and the  *)
(*                reclamation pass;                                        *)
(*   SpecObs      the log observers against the registry writers;          *)
(*   SpecPath     the path allowlist;                                      *)
(*   SpecStart    the job-start requests of both kinds;                    *)
(*   SpecRun      build and test jobs from the request to the record;      *)
(*   SpecAuth     the build routes behind the API key middleware;          *)
(*   SpecPipe     a build job over bounded pipes, with read errors, under  *)
(*                the fair scheduling of its tasks;                        *)
(*   SpecServe    the registry as the running service drives it, fairly;   *)
(*   SpecLock     the log observers step by step under the registry lock;  *)
(*   SpecValid    job-start requests with empty paths;                     *)
(*   SpecTwo      two build jobs side by side;                             *)
(*   SpecCreate   the registry with create_build called on issued ids;     *)
(*   SpecChan     one build job whose channel holds several lines.         *)
(***************************************************************************)
EXTENDS Integers, Sequences, FiniteSets, TLC

VARIABLES
    config,     \* AppState.config: the allowlist the service was started with
    builds,     \* AppState.builds: HashMap<String, BuildStatus>, a function on the present ids
    nextId,     \* the next fresh id (Uuid::new_v4 never repeats)
    resp,       \* the last response a job-start or cancellation request was answered with
    pc,         \* per job: where the job task (run_build) is
    proc,       \* per job: the external process and its two pipes
    rlogs,      \* per job: the runner's captured log (BuildOutput.logs)
    params,     \* per job: the BuildParams / TestParams the job task was spawned with
    build_dir,  \* per job: the runner's recorded artifact directory (BuildOutput.build_dir)
    chan,       \* per job: the mpsc channel between the sink and the collector
    capacity,   \* the capacity the job tasks give their channels, fixed over a run
    txOpen,     \* per job: the channel's sender is not yet dropped
    coll,       \* per job: the log collector task
    obs,        \* per observer: the SSE stream of build_logs
    applog,     \* history: per id, the lines append_build_log was called with while Running
    took,       \* history: per id, the terminal writers that changed the record
    final,      \* history: per id, the record as it was right after its terminal transition
    late,       \* history: per id, a registry writer was called on it while it was terminal
    acks,       \* history: per id, the number of cancellation requests answered `cancelled`
    sunk        \* history: per job, the lines the runner's sink (on_line) was called with

vars == <<config, builds, nextId, resp, pc, proc, rlogs, params, build_dir, chan, capacity, txOpen,
          coll, obs,
          applog, took, final, late, acks, sunk>>

(***************************************************************************)
(* Bounds                                                                  *)
(***************************************************************************)
\* number of job ids a run of SpecReclaim creates
MaxIds == 3
\* number of job ids a run of SpecReg creates
MaxRegIds == 2
\* number of lines a run of SpecReg appends to Running records, over all ids
MaxLog == 2
\* largest retention ceiling passed to cleanup_old_builds
MaxKeep == 2
\* capacity of the channel between the sink and the collector: mpsc::channel(100)
\* in build.rs 77, scaled to the lines of a run so that the queue does fill
ChanCap == 1
\* SpecChan: a channel that holds several lines, and a process that writes
\* more lines than the channel holds
WideChanCap == 2
MaxChanLines == 4

Ids == 1..MaxIds
\* the lines SpecReg appends (two values, so that order and repetition show)
LineVals == {"a", "b"}

\* Option<T>
None == <<>>
Some(x) == <<x>>

(***************************************************************************)
(* BuildStatus (state.rs 13-45)                                            *)
(***************************************************************************)
Running(logs) == [st |-> "Running", logs |-> logs]
Success(logs, artifacts) == [st |-> "Success", logs |-> logs, artifacts |-> artifacts]
Failed(logs, error, exit_code) ==
    [st |-> "Failed", logs |-> logs, error |-> error, exit_code |-> exit_code]
Cancelled == [st |-> "Cancelled"]

is_complete(status) == status.st \in {"Success", "Failed", "Cancelled"}

logs_of(status) ==
    IF status.st = "Cancelled" THEN <<>> ELSE status.logs

(***************************************************************************)
(* AppState (state.rs 54-141). Each method holds the write lock (get_build *)
(* the read lock) for its whole body, so each is one atomic step that maps *)
(* the map `b` to the new map.                                             *)
(***************************************************************************)
create_build_lost(b, build_id) == b

create_build_keep(b, build_id) ==
    [x \in DOMAIN b \cup {build_id} |-> IF x \in DOMAIN b THEN b[x] ELSE Running(<<>>)]

create_build(b, build_id) ==
    [x \in DOMAIN b \cup {build_id} |-> IF x = build_id THEN Running(<<>>) ELSE b[x]]

append_build_log_revive(b, build_id, line) ==
    IF build_id \in DOMAIN b
    THEN [b EXCEPT ![build_id] = Running(Append(logs_of(b[build_id]), line))]
    ELSE b

append_build_log_dup(b, build_id, line) ==
    IF build_id \in DOMAIN b /\ b[build_id].st \in {"Running", "Success", "Failed"}
    THEN [b EXCEPT ![build_id].logs = Append(@, line)]
    ELSE b

append_build_log_all(b, build_id, line) ==
    IF build_id \in DOMAIN b
    THEN [x \in DOMAIN b |-> IF b[x].st = "Running" THEN Running(Append(b[x].logs, line)) ELSE b[x]]
    ELSE b

append_build_log(b, build_id, line) ==
    IF build_id \in DOMAIN b /\ b[build_id].st = "Running"
    THEN [b EXCEPT ![build_id] = Running(Append(b[build_id].logs, line))]
    ELSE b

complete_build_force(b, build_id, artifacts) ==
    IF build_id \in DOMAIN b
    THEN [b EXCEPT ![build_id] = Success(logs_of(b[build_id]), artifacts)]
    ELSE b

complete_build(b, build_id, artifacts) ==
    IF build_id \in DOMAIN b /\ b[build_id].st = "Running"
    THEN [b EXCEPT ![build_id] = Success(b[build_id].logs, artifacts)]
    ELSE b

fail_build_clear(b, build_id, error, exit_code) ==
    IF build_id \in DOMAIN b /\ b[build_id].st = "Running"
    THEN [b EXCEPT ![build_id] = Failed(<<>>, error, exit_code)]
    ELSE b

fail_build(b, build_id, error, exit_code) ==
    IF build_id \in DOMAIN b /\ b[build_id].st = "Running"
    THEN [b EXCEPT ![build_id] = Failed(b[build_id].logs, error, exit_code)]
    ELSE b

get_build(b, build_id) ==
    IF build_id \in DOMAIN b THEN Some(b[build_id]) ELSE None

\* cancel_build returns the new map and the bool
cancel_build_any(b, build_id) ==
    IF build_id \in DOMAIN b
    THEN [builds |-> [b EXCEPT ![build_id] = Cancelled], ret |-> TRUE]
    ELSE [builds |-> b, ret |-> FALSE]

cancel_build_keep(b, build_id) ==
    IF build_id \in DOMAIN b /\ b[build_id].st = "Running"
    THEN [builds |-> [b EXCEPT ![build_id] = [st |-> "Cancelled", logs |-> b[build_id].logs]],
          ret |-> TRUE]
    ELSE [builds |-> b, ret |-> FALSE]

cancel_build(b, build_id) ==
    IF build_id \in DOMAIN b /\ b[build_id].st = "Running"
    THEN [builds |-> [b EXCEPT ![build_id] = Cancelled], ret |-> TRUE]
    ELSE [builds |-> b, ret |-> FALSE]

\* Iterator::take(n) on a sequence
Take(s, n) == SubSeq(s, 1, IF n < Len(s) THEN n ELSE Len(s))

Range(s) == {s[i] : i \in DOMAIN s}

\* the orders in which HashMap::iter may visit the keys of b: unspecified by
\* std, so every permutation of the keys
IterOrders(b) ==
    {s \in [1..Cardinality(DOMAIN b) -> DOMAIN b] : Range(s) = DOMAIN b}

\* usize::saturating_sub
saturating_sub(x, y) == IF x > y THEN x - y ELSE 0

cleanup_old_builds_any(b, max_completed, iter) ==
    LET remove_count == saturating_sub(Len(iter), max_completed)
        removed == Range(Take(iter, remove_count))
    IN  [x \in DOMAIN b \ removed |-> b[x]]

\* `iter` is the order in which builds.iter() visits the keys
cleanup_old_builds(b, max_completed, iter) ==
    LET completed == SelectSeq(iter, LAMBDA id : is_complete(b[id]))
        remove_count == saturating_sub(Len(completed), max_completed)
        removed == Range(Take(completed, remove_count))
    IN  [x \in DOMAIN b \ removed |-> b[x]]

(***************************************************************************)
(* History variables, updated beside every registry call from the map      *)
(* before and after it.                                                    *)
(***************************************************************************)
IsRunning(b, id) == id \in DOMAIN b /\ b[id].st = "Running"
IsTerminal(b, id) == id \in DOMAIN b /\ is_complete(b[id])

\* `writer` called on `id` took the map from b to b2
TookAfter(b, b2, id, writer) ==
    IF id \in DOMAIN b /\ id \in DOMAIN b2 /\ b2[id] # b[id]
    THEN [took EXCEPT ![id] = Append(@, writer)]
    ELSE took

FinalAfter(b, b2, id) ==
    IF IsRunning(b, id) /\ IsTerminal(b2, id)
    THEN [final EXCEPT ![id] = Some(b2[id])]
    ELSE final

LateAfter(b, id) ==
    IF IsTerminal(b, id) THEN [late EXCEPT ![id] = TRUE] ELSE late

RECURSIVE SumLen(_, _)
SumLen(f, S) ==
    IF S = {} THEN 0
    ELSE LET x == CHOOSE y \in S : TRUE IN Len(f[x]) + SumLen(f, S \ {x})

TotalLen(f) == SumLen(f, DOMAIN f)

RECURSIVE SumNw(_)
SumNw(S) ==
    IF S = {} THEN 0
    ELSE LET x == CHOOSE y \in S : TRUE IN proc[x].nw + SumNw(S \ {x})

ApplogAfter(b, id, line) ==
    IF IsRunning(b, id) THEN [applog EXCEPT ![id] = Append(@, line)] ELSE applog

(***************************************************************************)
(* SpecReg: the registry driven directly. Ids are created fresh, as every  *)
(* caller of create_build does (build.rs 42-45, test.rs 42-45).            *)
(***************************************************************************)
ArtifactVals == {<<>>, <<"/dd/Build/Products">>}
FailVals == {<<"Build failed", Some(65)>>, <<"Failed to spawn xcodebuild", None>>}

jobVars == <<pc, proc, rlogs, params, build_dir, chan, txOpen, coll>>
regHist == <<applog, took, final, late, acks>>
histVars == <<regHist, sunk>>

InitHistory ==
    /\ applog = [id \in Ids |-> <<>>]
    /\ took = [id \in Ids |-> <<>>]
    /\ final = [id \in Ids |-> None]
    /\ late = [id \in Ids |-> FALSE]
    /\ acks = [id \in Ids |-> 0]
    /\ sunk = [id \in Ids |-> <<>>]

InitReg ==
    /\ config = [allowed_paths |-> None, api_key |-> None]
    /\ builds = <<>>
    /\ nextId = 1
    /\ capacity = ChanCap
    /\ resp = None
    /\ pc = <<>> /\ proc = <<>> /\ rlogs = <<>> /\ params = <<>> /\ build_dir = <<>>
    /\ chan = <<>> /\ txOpen = <<>> /\ coll = <<>>
    /\ obs = <<>>
    /\ InitHistory

Create(ids) ==
    /\ nextId \in ids
    /\ builds' = create_build(builds, nextId)
    /\ nextId' = nextId + 1
    /\ UNCHANGED <<config, capacity, resp, jobVars, obs, histVars>>

RegCreate == Create(1..MaxRegIds)

RegAppend(id, line) ==
    /\ TotalLen(applog) < MaxLog
    /\ builds' = append_build_log(builds, id, line)
    /\ applog' = ApplogAfter(builds, id, line)
    /\ late' = LateAfter(builds, id)
    /\ UNCHANGED <<config, capacity, nextId, resp, jobVars, obs, took, final, acks, sunk>>

\* the three terminal writers, called on `id`; the callers say what becomes
\* of the history variable `final`
CompleteCall(id, artifacts) ==
    /\ builds' = complete_build(builds, id, artifacts)
    /\ late' = LateAfter(builds, id)
    /\ UNCHANGED <<config, capacity, nextId, resp, jobVars, obs, applog, took, acks, sunk>>

FailCall(id, error, exit_code) ==
    /\ builds' = fail_build(builds, id, error, exit_code)
    /\ late' = LateAfter(builds, id)
    /\ UNCHANGED <<config, capacity, nextId, resp, jobVars, obs, applog, took, acks, sunk>>

CancelCall(id) ==
    /\ builds' = cancel_build(builds, id).builds
    /\ late' = LateAfter(builds, id)
    /\ UNCHANGED <<config, capacity, nextId, resp, jobVars, obs, applog, took, acks, sunk>>

RegComplete(id, artifacts) == CompleteCall(id, artifacts) /\ UNCHANGED final

RegFail(id, error, exit_code) == FailCall(id, error, exit_code) /\ UNCHANGED final

RegCancel(id) == CancelCall(id) /\ UNCHANGED final

RegCleanup(max_completed, iter) ==
    /\ builds' = cleanup_old_builds(builds, max_completed, iter)
    /\ UNCHANGED <<config, capacity, nextId, resp, jobVars, obs, histVars>>

NextReg ==
    \/ RegCreate
    \/ \E id \in Ids, line \in LineVals : RegAppend(id, line)
    \/ \E id \in Ids, artifacts \in ArtifactVals : RegComplete(id, artifacts)
    \/ \E id \in Ids, f \in FailVals : RegFail(id, f[1], f[2])
    \/ \E id \in Ids : RegCancel(id)
    \/ \E n \in 0..MaxKeep, iter \in IterOrders(builds) : RegCleanup(n, iter)

SpecReg == InitReg /\ [][NextReg]_vars

(***************************************************************************)
(* SpecReclaim: the reclamation pass over registries of up to MaxIds       *)
(* records in every mix of states (cleanup_old_builds reads only           *)
(* is_complete, so the logs stay empty here).                              *)
(***************************************************************************)
ReclaimCreate == Create(Ids)

NextReclaim ==
    \/ ReclaimCreate
    \/ \E id \in Ids, artifacts \in ArtifactVals : RegComplete(id, artifacts)
    \/ \E id \in Ids, f \in FailVals : RegFail(id, f[1], f[2])
    \/ \E id \in Ids : RegCancel(id)
    \/ \E n \in 0..MaxKeep, iter \in IterOrders(builds) : RegCleanup(n, iter)

SpecReclaim == InitReg /\ [][NextReclaim]_vars

(***************************************************************************)
(* Config::is_path_allowed (config.rs 44-60). A path is its sequence of    *)
(* components; canonicalize is std::fs::canonicalize on a small file       *)
(* system with one symbolic link and one name that does not exist.         *)
(***************************************************************************)
AllowedRoot == <<"allowed">>
InPath == <<"allowed", "App.xcodeproj">>
OutPath == <<"other", "App.xcodeproj">>
LinkPath == <<"allowed", "Link.xcodeproj">>
MissingPath == <<"allowed", "Missing.xcodeproj">>
\* a link outside the root to the project inside it, and a path that climbs
\* out of the root
BackLinkPath == <<"other", "In.xcodeproj">>
DotDotPath == <<"allowed", "..", "other", "App.xcodeproj">>
\* roots: another directory, a link to the allowed root, a directory that
\* does not exist
OtherRoot == <<"other">>
LinkRoot == <<"rootlink">>
MissingRoot == <<"gone">>

canonicalize(path) ==
    CASE path = AllowedRoot -> Some(AllowedRoot)
      [] path = InPath -> Some(InPath)
      [] path = OutPath -> Some(OutPath)
      [] path = LinkPath -> Some(OutPath)
      [] path = BackLinkPath -> Some(InPath)
      [] path = DotDotPath -> Some(OutPath)
      [] path = OtherRoot -> Some(OtherRoot)
      [] path = LinkRoot -> Some(AllowedRoot)
      [] OTHER -> None

\* Path::starts_with: whole components
starts_with(path, base) ==
    Len(base) <= Len(path) /\ SubSeq(path, 1, Len(base)) = base

is_path_allowed_textual(cfg, path) ==
    IF cfg.allowed_paths = None THEN TRUE
    ELSE \E i \in DOMAIN cfg.allowed_paths[1] :
             Len(cfg.allowed_paths[1][i]) <= Len(path)
             /\ SubSeq(path, 1, Len(cfg.allowed_paths[1][i])) = cfg.allowed_paths[1][i]

\* a check that falls back on the path as written when canonicalize fails
is_path_allowed_open(cfg, path) ==
    IF cfg.allowed_paths = None THEN TRUE
    ELSE LET allowed == cfg.allowed_paths[1]
             canonical == IF canonicalize(path) = None THEN path ELSE canonicalize(path)[1]
         IN  \E i \in DOMAIN allowed :
                 starts_with(canonical,
                             IF canonicalize(allowed[i]) = None THEN allowed[i]
                             ELSE canonicalize(allowed[i])[1])

is_path_allowed(cfg, path) ==
    IF cfg.allowed_paths = None THEN TRUE
    ELSE LET allowed == cfg.allowed_paths[1]
             canonical == canonicalize(path)
         IN  \E i \in DOMAIN allowed :
                 /\ canonical # None
                 /\ canonicalize(allowed[i]) # None
                 /\ starts_with(canonical[1], canonicalize(allowed[i])[1])

(***************************************************************************)
(* Responses (models/responses.rs, error.rs)                               *)
(***************************************************************************)
Ok(body) == [ok |-> TRUE, body |-> body]
Err(kind, arg) == [ok |-> FALSE, error |-> kind, arg |-> arg]

BuildStatusResponse(build_id, status, exit_code, artifacts, error, logs) ==
    [build_id |-> build_id, status |-> status, exit_code |-> exit_code,
     artifacts |-> artifacts, error |-> error, logs |-> logs]

get_build_handler_leaky(b, build_id) ==
    LET found == get_build(b, build_id) IN
    IF found = None THEN Err("BuildNotFound", build_id)
    ELSE LET build == found[1] IN
         CASE build.st = "Running" ->
                Ok(BuildStatusResponse(build_id, "running", None, None, None, build.logs))
           [] build.st = "Success" ->
                Ok(BuildStatusResponse(build_id, "success", Some(0), Some(build.artifacts),
                                       None, build.logs))
           [] build.st = "Failed" ->
                Ok(BuildStatusResponse(build_id, "failed", build.exit_code, Some(<<>>),
                                       Some(build.error), build.logs))
           [] build.st = "Cancelled" ->
                Ok(BuildStatusResponse(build_id, "cancelled", None, None, None, <<>>))

\* GET /build/:id (build.rs 126-157)
get_build_handler(b, build_id) ==
    LET found == get_build(b, build_id) IN
    IF found = None THEN Err("BuildNotFound", build_id)
    ELSE LET build == found[1] IN
         CASE build.st = "Running" ->
                Ok(BuildStatusResponse(build_id, "running", None, None, None, build.logs))
           [] build.st = "Success" ->
                Ok(BuildStatusResponse(build_id, "success", Some(0), Some(build.artifacts),
                                       None, build.logs))
           [] build.st = "Failed" ->
                Ok(BuildStatusResponse(build_id, "failed", build.exit_code, None,
                                       Some(build.error), build.logs))
           [] build.st = "Cancelled" ->
                Ok(BuildStatusResponse(build_id, "cancelled", None, None, None, <<>>))

cancel_build_handler_always(b, build_id) ==
    [builds |-> cancel_build(b, build_id).builds,
     resp |-> Ok(BuildStatusResponse(build_id, "cancelled", None, None, None, <<>>))]

\* DELETE /build/:id (build.rs 204-222): the new map and the response
cancel_build_handler(b, build_id) ==
    LET r == cancel_build(b, build_id) IN
    IF ~r.ret
    THEN [builds |-> r.builds, resp |-> Err("BuildNotFound", build_id)]
    ELSE [builds |-> r.builds,
          resp |-> Ok(BuildStatusResponse(build_id, "cancelled", None, None, None, <<>>))]

(***************************************************************************)
(* The job task: run_build (build.rs 73-123) around run_xcodebuild         *)
(* (xcodebuild.rs 145-218).                                                *)
(***************************************************************************)
\* Spec runs one job at a time: the registry keeps ids apart (checked under
\* SpecReg on several ids), and the tasks of a job share nothing else
Jobs == {1}
\* number of lines the external processes of a run write, over all jobs
MaxLines == 2

\* a line is opaque text: who wrote it, its number in the process's output,
\* and which of the markers the code searches for it contains
ErrorMarker == "error:"
TestFailedMarker == "** TEST FAILED **"
BuildDirMarker == "BUILD_DIR = "
LineMarks == {{}, {ErrorMarker}}
\* the lines of SpecRun: also the test-failure and the artifact-directory markers
RunMarks == {{}, {ErrorMarker}, {TestFailedMarker}, {BuildDirMarker}}
Line(job, n, marks) == [job |-> job, n |-> n, marks |-> marks]
contains(line, marker) == marker \in line.marks

\* what the process can end with: exit codes, or no code (killed by a signal)
ExitStatuses == {Some(0), Some(65), None}

\* the requests of a run: the bodies that deserialize into BuildRequest /
\* TestRequest. scheme is a String with no default (requests.rs 20, 41): a
\* body without it is rejected before the handler is entered, so every
\* request that reaches start_build carries one
ReqPaths == {InPath, OutPath}
SchemeNames == {"App"}
Requests == [project : {None} \cup {Some(p) : p \in ReqPaths},
             workspace : {None} \cup {Some(p) : p \in ReqPaths},
             scheme : SchemeNames]

\* the requests of Spec: one path at most
ProjectRequests == {req \in Requests : req.workspace = None}

\* closed: the process has closed its stdout; failed: the streams on which a
\* read of the runner has returned an error; waited: what child.wait() has
\* returned ("no" before it returns, then "ok" or "err")
NoProc ==
    [st |-> "none", args |-> <<>>, out |-> <<>>, err |-> <<>>, nw |-> 0, code |-> None,
     closed |-> FALSE, failed |-> {}, waited |-> "no"]

Init ==
    /\ config = [allowed_paths |-> Some(<<AllowedRoot>>), api_key |-> None]
    /\ builds = <<>>
    /\ nextId = 1
    /\ capacity = ChanCap
    /\ resp = None
    /\ pc = [j \in Jobs |-> "idle"]
    /\ proc = [j \in Jobs |-> NoProc]
    /\ rlogs = [j \in Jobs |-> <<>>]
    /\ params = [j \in Jobs |-> None]
    /\ build_dir = [j \in Jobs |-> None]
    /\ chan = [j \in Jobs |-> <<>>]
    /\ txOpen = [j \in Jobs |-> FALSE]
    /\ coll = [j \in Jobs |-> [pc |-> "none"]]
    /\ obs = <<>>
    /\ InitHistory

\* Option::or
or(a, b) == IF a # None THEN a ELSE b

\* a field of the request body that serde gives a default: the value given,
\* or the default when the body leaves it out (Option and #[serde(default)],
\* requests.rs 12-52)
Field(req, name, default) == IF name \in DOMAIN req THEN req[name] ELSE default
\* default_configuration (requests.rs 8-10)
default_configuration == "Debug"

\* BuildParams / TestParams, built from the request as it came (build.rs 48-56,
\* test.rs 48-56)
Params(kind, req) ==
    IF kind = "build"
    THEN [kind |-> kind, project |-> req.project, workspace |-> req.workspace,
          scheme |-> req.scheme,
          configuration |-> Field(req, "configuration", default_configuration),
          destination |-> Field(req, "destination", None),
          derived_data_path |-> Field(req, "derived_data_path", None),
          extra_args |-> Field(req, "extra_args", <<>>)]
    ELSE [kind |-> kind, project |-> req.project, workspace |-> req.workspace,
          scheme |-> req.scheme,
          destination |-> Field(req, "destination", None),
          test_plan |-> Field(req, "test_plan", None),
          only_testing |-> Field(req, "only_testing", <<>>),
          skip_testing |-> Field(req, "skip_testing", <<>>)]

\* `flag value` for an optional field
opt_arg(flag, value) == IF value # None THEN <<flag, value[1]>> ELSE <<>>

\* `flag test` for every test of a list
RECURSIVE each_arg(_, _)
each_arg(flag, tests) ==
    IF tests = <<>> THEN <<>> ELSE <<flag, Head(tests)>> \o each_arg(flag, Tail(tests))

\* BuildParams::to_args (xcodebuild.rs 46-78) and TestParams::to_args
\* (xcodebuild.rs 94-132)
to_args(p) ==
    IF p.kind = "build"
    THEN opt_arg("-project", p.project)
         \o opt_arg("-workspace", p.workspace)
         \o <<"-scheme", p.scheme>>
         \o <<"-configuration", p.configuration>>
         \o opt_arg("-destination", p.destination)
         \o opt_arg("-derivedDataPath", p.derived_data_path)
         \o p.extra_args
    ELSE <<"test">>
         \o opt_arg("-project", p.project)
         \o opt_arg("-workspace", p.workspace)
         \o <<"-scheme", p.scheme>>
         \o opt_arg("-destination", p.destination)
         \o opt_arg("-testPlan", p.test_plan)
         \o each_arg("-only-testing", p.only_testing)
         \o each_arg("-skip-testing", p.skip_testing)

start_job_register_first(kind, req) ==
    LET project_path == or(req.project, req.workspace) IN
    /\ nextId \in DOMAIN pc
    /\ builds' = create_build(builds, nextId)
    /\ nextId' = nextId + 1
    /\ resp' = IF project_path = None
               THEN Err("InvalidRequest", "Either project or workspace must be specified")
               ELSE IF ~is_path_allowed(config, project_path[1])
               THEN Err("PathNotAllowed", project_path[1])
               ELSE Ok([build_id |-> nextId, status |-> "running"])
    /\ UNCHANGED <<config, capacity, jobVars, obs, histVars>>

\* start_build (build.rs 23-70) and start_test (test.rs 23-70), the same code
\* but for the kind of the task they spawn; tokio::spawn leaves the job task
\* ready to run ("spawned"), its body not yet entered
start_job(kind, req) ==
    LET project_path == or(req.project, req.workspace) IN
    IF project_path = None
    THEN /\ resp' = Err("InvalidRequest", "Either project or workspace must be specified")
         /\ UNCHANGED <<config, capacity, builds, nextId, jobVars, obs, histVars>>
    ELSE IF ~is_path_allowed(config, project_path[1])
    THEN /\ resp' = Err("PathNotAllowed", project_path[1])
         /\ UNCHANGED <<config, capacity, builds, nextId, jobVars, obs, histVars>>
    ELSE /\ nextId \in DOMAIN pc
         /\ builds' = create_build(builds, nextId)
         /\ nextId' = nextId + 1
         /\ params' = [params EXCEPT ![nextId] = Some(Params(kind, req))]
         /\ pc' = [pc EXCEPT ![nextId] = "spawned"]
         /\ resp' = Ok([build_id |-> nextId, status |-> "running"])
         /\ UNCHANGED <<config, capacity, build_dir, proc, rlogs, chan, txOpen, coll, obs, histVars>>

\* POST /build (build.rs 23-70)
StartBuild(req) == start_job("build", req)

\* POST /test (test.rs 23-70)
StartTest(req) == start_job("test", req)

\* the job task starts: run_build creates the channel and spawns the log
\* collector (build.rs 73-88; run_test, test.rs 73-88)
RunJobTask(j) ==
    /\ pc[j] = "spawned"
    /\ pc' = [pc EXCEPT ![j] = "spawn"]
    /\ chan' = [chan EXCEPT ![j] = <<>>]
    /\ txOpen' = [txOpen EXCEPT ![j] = TRUE]
    /\ coll' = [coll EXCEPT ![j] = [pc |-> "recv"]]
    /\ UNCHANGED <<config, capacity, params, build_dir, builds, nextId, resp, proc, rlogs, obs, histVars>>

\* cmd.spawn() succeeds (xcodebuild.rs 156-164)
SpawnOk(j) ==
    /\ pc[j] = "spawn"
    /\ pc' = [pc EXCEPT ![j] = "select"]
    /\ proc' = [proc EXCEPT ![j].st = "running", ![j].args = to_args(params[j][1])]
    /\ UNCHANGED <<config, capacity, params, build_dir, builds, nextId, resp, rlogs, chan, txOpen, coll, obs, histVars>>

\* cmd.spawn() fails: run_xcodebuild returns Err and drops the sink (xcodebuild.rs 156-158)
SpawnFail(j) ==
    /\ pc[j] = "spawn"
    /\ pc' = [pc EXCEPT ![j] = "err"]
    /\ txOpen' = [txOpen EXCEPT ![j] = FALSE]
    /\ UNCHANGED <<config, capacity, params, build_dir, builds, nextId, resp, proc, rlogs, chan, coll, obs, histVars>>

TotalWritten == SumNw(DOMAIN proc)

\* the external process writes one line to one of its two pipes, while the
\* processes of the run have written fewer than max lines
ProcWriteUpTo(j, stream, marks, max) ==
    /\ proc[j].st = "running"
    /\ stream = "stdout" => ~proc[j].closed
    /\ TotalWritten < max
    /\ LET line == Line(j, proc[j].nw + 1, marks) IN
       proc' = [proc EXCEPT ![j].nw = @ + 1,
                            ![j].out = IF stream = "stdout" THEN Append(@, line) ELSE @,
                            ![j].err = IF stream = "stderr" THEN Append(@, line) ELSE @]
    /\ UNCHANGED <<config, capacity, params, build_dir, builds, nextId, resp, pc, rlogs, chan, txOpen, coll, obs, histVars>>

ProcWrite(j, stream, marks) == ProcWriteUpTo(j, stream, marks, MaxLines)

\* the external process exits: both pipes reach end-of-file once read empty
\* (stdout already does when the process has closed it)
ProcExit(j, status) ==
    /\ proc[j].st = "running"
    /\ proc' = [proc EXCEPT ![j].st = "exited", ![j].code = status]
    /\ UNCHANGED <<config, capacity, params, build_dir, builds, nextId, resp, pc, rlogs, chan, txOpen, coll, obs, histVars>>

try_send_unbounded(queue, line) == Append(queue, line)

\* the sink of run_build: tx.try_send(line), its error ignored (build.rs 91-93)
try_send(queue, line) ==
    IF Len(queue) < capacity THEN Append(queue, line) ELSE queue

\* the directory a line names after the marker:
\* line.split("BUILD_DIR = ").nth(1), trimmed (xcodebuild.rs 176-177)
dir_of(line) == [dir |-> line.n]

\* "Check for build directory in output" (xcodebuild.rs 175-179)
record_build_dir(old, line) ==
    IF contains(line, BuildDirMarker) THEN Some(dir_of(line)) ELSE old

\* the stdout branch of the select loop (xcodebuild.rs 171-189)
ReadStdout(j) ==
    /\ pc[j] = "select"
    /\ IF proc[j].out # <<>>
       THEN LET line == Head(proc[j].out) IN
            /\ proc' = [proc EXCEPT ![j].out = Tail(@)]
            /\ chan' = [chan EXCEPT ![j] = try_send(@, line)]
            /\ sunk' = [sunk EXCEPT ![j] = Append(@, line)]
            /\ rlogs' = [rlogs EXCEPT ![j] = Append(@, line)]
            /\ build_dir' = [build_dir EXCEPT ![j] = record_build_dir(@, line)]
            /\ UNCHANGED pc
       ELSE /\ proc[j].st = "exited" \/ proc[j].closed
            /\ pc' = [pc EXCEPT ![j] = "wait"]
            /\ UNCHANGED <<proc, chan, rlogs, build_dir, sunk>>
    /\ UNCHANGED <<config, capacity, params, builds, nextId, resp, txOpen, coll, obs, regHist>>

ReadStderr_silent(j) ==
    /\ pc[j] = "select"
    /\ proc[j].err # <<>>
    /\ LET line == Head(proc[j].err) IN
       /\ proc' = [proc EXCEPT ![j].err = Tail(@)]
       /\ rlogs' = [rlogs EXCEPT ![j] = Append(@, line)]
    /\ UNCHANGED <<config, capacity, params, build_dir, builds, nextId, resp, pc, chan, txOpen, coll, obs, histVars>>

\* the stderr branch of the select loop (xcodebuild.rs 190-201); at
\* end-of-file it changes nothing and the loop goes round
ReadStderr(j) ==
    /\ pc[j] = "select"
    /\ proc[j].err # <<>>
    /\ LET line == Head(proc[j].err) IN
       /\ proc' = [proc EXCEPT ![j].err = Tail(@)]
       /\ chan' = [chan EXCEPT ![j] = try_send(@, line)]
       /\ sunk' = [sunk EXCEPT ![j] = Append(@, line)]
       /\ rlogs' = [rlogs EXCEPT ![j] = Append(@, line)]
    /\ UNCHANGED <<config, capacity, params, build_dir, builds, nextId, resp, pc, txOpen, coll, obs, regHist>>

\* child.wait() returns; run_xcodebuild returns Ok(output) and drops the sink
\* (xcodebuild.rs 205-217)
WaitExit(j) ==
    /\ pc[j] = "wait"
    /\ proc[j].st = "exited"
    /\ pc' = [pc EXCEPT ![j] = "ok"]
    /\ proc' = [proc EXCEPT ![j].waited = "ok"]
    /\ txOpen' = [txOpen EXCEPT ![j] = FALSE]
    /\ UNCHANGED <<config, capacity, params, build_dir, builds, nextId, resp, rlogs, chan, coll, obs, histVars>>

\* child.wait() returns Err (the exit status of the process cannot be
\* collected): run_xcodebuild returns Err with `?`, its logs, its build_dir
\* and the sink are dropped (xcodebuild.rs 205-208)
WaitErr(j) ==
    /\ pc[j] = "wait"
    /\ proc[j].st = "exited"
    /\ pc' = [pc EXCEPT ![j] = "err"]
    /\ proc' = [proc EXCEPT ![j].waited = "err"]
    /\ rlogs' = [rlogs EXCEPT ![j] = <<>>]
    /\ build_dir' = [build_dir EXCEPT ![j] = None]
    /\ txOpen' = [txOpen EXCEPT ![j] = FALSE]
    /\ UNCHANGED <<config, capacity, params, builds, nextId, resp, chan, coll, obs, histVars>>

\* BuildOutput (xcodebuild.rs 210-217)
\* status.code().unwrap_or(0)
exit_code_of_zero(status) == IF status = None THEN 0 ELSE status[1]
exit_code_of(status) == IF status = None THEN -1 ELSE status[1]
success_of_exited(status) == status # None

success_of(status) == status = Some(0)

RECURSIVE find_first(_, _)
find_first(logs, kind) ==
    IF logs = <<>> THEN None
    ELSE IF \/ contains(Head(logs), ErrorMarker)
            \/ kind = "test" /\ contains(Head(logs), TestFailedMarker)
         THEN Some(Head(logs))
         ELSE find_first(Tail(logs), kind)

\* iter().rev().find(..) (build.rs 105-111, test.rs 101-107)
RECURSIVE rfind(_, _)
rfind(logs, kind) ==
    IF logs = <<>> THEN None
    ELSE LET l == logs[Len(logs)] IN
         IF \/ contains(l, ErrorMarker)
            \/ kind = "test" /\ contains(l, TestFailedMarker)
         THEN Some(l)
         ELSE rfind(SubSeq(logs, 1, Len(logs) - 1), kind)

GenericFailure(kind) == IF kind = "test" THEN "Tests failed" ELSE "Build failed"
SpawnError == "Command execution failed: Failed to spawn xcodebuild"
WaitError == "Command execution failed: Failed to wait for xcodebuild"

\* Result<BuildOutput>: what run_xcodebuild returned to the job task
RunnerOk == [ok |-> TRUE]
RunnerErr(msg) == [ok |-> FALSE, error |-> msg]
runner_result(p, child) ==
    IF p = "ok" THEN RunnerOk
    ELSE RunnerErr(IF child.waited = "err" THEN WaitError ELSE SpawnError)

\* Option::unwrap_or_else: the error summary passed to fail_build
failure_summary(logs, kind) ==
    LET found == rfind(logs, kind) IN
    IF found = None THEN [msg |-> GenericFailure(kind)] ELSE found[1]

\* the artifacts passed to complete_build: build_dir.map(|d| vec![d])
\* .unwrap_or_default() for a build (build.rs 99-102), vec![] for a test
\* (test.rs 98)
artifacts_of(kind, dir) ==
    IF kind = "build" /\ dir # None THEN <<dir[1]>> ELSE <<>>

finalize_spawn_code(b, j, kind, result, status, logs, dir) ==
    IF result.ok
    THEN IF success_of(status)
         THEN complete_build(b, j, artifacts_of(kind, dir))
         ELSE fail_build(b, j, failure_summary(logs, kind), Some(exit_code_of(status)))
    ELSE fail_build(b, j, [msg |-> result.error], Some(exit_code_of(status)))

\* the match on the runner's result (build.rs 96-122, test.rs 96-118)
finalize(b, j, kind, result, status, logs, dir) ==
    IF result.ok
    THEN IF success_of(status)
         THEN complete_build(b, j, artifacts_of(kind, dir))
         ELSE fail_build(b, j, failure_summary(logs, kind), Some(exit_code_of(status)))
    ELSE fail_build(b, j, [msg |-> result.error], None)

Finalize(j) ==
    /\ pc[j] \in {"ok", "err"}
    /\ builds' = finalize(builds, j, params[j][1].kind, runner_result(pc[j], proc[j]), proc[j].code,
                          rlogs[j], build_dir[j])
    /\ pc' = [pc EXCEPT ![j] = "done"]
    /\ took' = TookAfter(builds, builds', j,
                         IF pc[j] = "ok" /\ success_of(proc[j].code) THEN "complete" ELSE "fail")
    /\ final' = FinalAfter(builds, builds', j)
    /\ late' = LateAfter(builds, j)
    /\ UNCHANGED <<config, capacity, params, build_dir, nextId, resp, proc, rlogs, chan, txOpen, coll, obs, applog, acks, sunk>>

CollRecv_peek(j) ==
    /\ coll[j].pc = "recv"
    /\ IF chan[j] # <<>>
       THEN coll' = [coll EXCEPT ![j] = [pc |-> "append", line |-> Head(chan[j])]]
       ELSE /\ ~txOpen[j]
            /\ coll' = [coll EXCEPT ![j] = [pc |-> "exit"]]
    /\ UNCHANGED <<config, capacity, params, build_dir, builds, nextId, resp, pc, proc, rlogs, chan, txOpen, obs, histVars>>

CollRecv_newest(j) ==
    /\ coll[j].pc = "recv"
    /\ IF chan[j] # <<>>
       THEN /\ coll' = [coll EXCEPT ![j] = [pc |-> "append", line |-> chan[j][Len(chan[j])]]]
            /\ chan' = [chan EXCEPT ![j] = SubSeq(@, 1, Len(@) - 1)]
       ELSE /\ ~txOpen[j]
            /\ coll' = [coll EXCEPT ![j] = [pc |-> "exit"]]
            /\ UNCHANGED chan
    /\ UNCHANGED <<config, capacity, params, build_dir, builds, nextId, resp, pc, proc, rlogs, txOpen, obs, histVars>>

\* the collector: rx.recv().await (build.rs 83)
CollRecv(j) ==
    /\ coll[j].pc = "recv"
    /\ IF chan[j] # <<>>
       THEN /\ coll' = [coll EXCEPT ![j] = [pc |-> "append", line |-> Head(chan[j])]]
            /\ chan' = [chan EXCEPT ![j] = Tail(@)]
       ELSE /\ ~txOpen[j]
            /\ coll' = [coll EXCEPT ![j] = [pc |-> "exit"]]
            /\ UNCHANGED chan
    /\ UNCHANGED <<config, capacity, params, build_dir, builds, nextId, resp, pc, proc, rlogs, txOpen, obs, histVars>>

\* the collector: append_build_log(..).await (build.rs 84-86)
CollAppend(j) ==
    /\ coll[j].pc = "append"
    /\ builds' = append_build_log(builds, j, coll[j].line)
    /\ coll' = [coll EXCEPT ![j] = [pc |-> "recv"]]
    /\ applog' = ApplogAfter(builds, j, coll[j].line)
    /\ late' = LateAfter(builds, j)
    /\ UNCHANGED <<config, capacity, params, build_dir, nextId, resp, pc, proc, rlogs, chan, txOpen, obs, took, final, acks, sunk>>

\* DELETE /build/:id
CancelBuild(id) ==
    LET r == cancel_build_handler(builds, id) IN
    /\ builds' = r.builds
    /\ resp' = r.resp
    /\ took' = TookAfter(builds, builds', id, "cancel")
    /\ final' = FinalAfter(builds, builds', id)
    /\ late' = LateAfter(builds, id)
    /\ acks' = IF r.resp.ok THEN [acks EXCEPT ![id] = @ + 1] ELSE acks
    /\ UNCHANGED <<config, capacity, nextId, jobVars, obs, applog, sunk>>

\* the reclamation pass
Reclaim(max_completed, iter) ==
    /\ builds' = cleanup_old_builds(builds, max_completed, iter)
    /\ UNCHANGED <<config, capacity, nextId, resp, jobVars, obs, histVars>>

Next ==
    \/ \E req \in ProjectRequests : StartBuild(req)
    \/ \E j \in Jobs : RunJobTask(j)
    \/ \E j \in Jobs : SpawnOk(j)
    \/ \E j \in Jobs : SpawnFail(j)
    \/ \E j \in Jobs, stream \in {"stdout", "stderr"}, marks \in LineMarks : ProcWrite(j, stream, marks)
    \/ \E j \in Jobs, status \in ExitStatuses : ProcExit(j, status)
    \/ \E j \in Jobs : ReadStdout(j)
    \/ \E j \in Jobs : ReadStderr(j)
    \/ \E j \in Jobs : WaitExit(j)
    \/ \E j \in Jobs : WaitErr(j)
    \/ \E j \in Jobs : Finalize(j)
    \/ \E j \in Jobs : CollRecv(j)
    \/ \E j \in Jobs : CollAppend(j)
    \/ \E id \in Jobs : CancelBuild(id)
    \/ \E n \in 0..MaxKeep, iter \in IterOrders(builds) : Reclaim(n, iter)

Spec == Init /\ [][Next]_vars

\* SpecPath: the allowlist check alone, on every configuration of at most
\* MaxRoots roots and every path of the file system above
MaxRoots == 2
Roots == {AllowedRoot, OtherRoot, LinkRoot, MissingRoot}
CheckedPaths == {AllowedRoot, InPath, OutPath, LinkPath, MissingPath, BackLinkPath, DotDotPath}

RootLists(n) == UNION {[1..k -> Roots] : k \in 0..n}

PathConfigs ==
    {[allowed_paths |-> a, api_key |-> None] :
        a \in {None} \cup {Some(l) : l \in RootLists(MaxRoots)}}

InitPath ==
    /\ config \in PathConfigs
    /\ builds = <<>>
    /\ nextId = 1
    /\ capacity = ChanCap
    /\ resp = None
    /\ pc = [j \in Jobs |-> "idle"]
    /\ proc = [j \in Jobs |-> NoProc]
    /\ rlogs = [j \in Jobs |-> <<>>]
    /\ params = [j \in Jobs |-> None]
    /\ build_dir = [j \in Jobs |-> None]
    /\ chan = [j \in Jobs |-> <<>>]
    /\ txOpen = [j \in Jobs |-> FALSE]
    /\ coll = [j \in Jobs |-> [pc |-> "none"]]
    /\ obs = <<>>
    /\ InitHistory

\* state.config.is_path_allowed(&path) (build.rs 37), its answer kept in resp
CheckPath(path) ==
    /\ resp' = [path |-> path, allowed |-> is_path_allowed(config, path)]
    /\ UNCHANGED <<config, capacity, builds, nextId, jobVars, obs, histVars>>

NextPath == \E path \in CheckedPaths : CheckPath(path)

SpecPath == InitPath /\ [][NextPath]_vars

\* SpecStart: the job-start requests of both kinds with every combination of
\* project and workspace, the launch and the end of a job that writes nothing,
\* cancellation and reclamation
NextStart ==
    \/ \E req \in Requests : StartBuild(req)
    \/ \E req \in Requests : StartTest(req)
    \/ \E j \in Jobs : RunJobTask(j)
    \/ \E j \in Jobs : SpawnOk(j)
    \/ \E j \in Jobs : SpawnFail(j)
    \/ \E j \in Jobs, status \in ExitStatuses : ProcExit(j, status)
    \/ \E j \in Jobs : ReadStdout(j)
    \/ \E j \in Jobs : WaitExit(j)
    \/ \E j \in Jobs : WaitErr(j)
    \/ \E j \in Jobs : Finalize(j)
    \/ \E j \in Jobs : CollRecv(j)
    \/ \E id \in Jobs : CancelBuild(id)
    \/ \E n \in 0..MaxKeep, iter \in IterOrders(builds) : Reclaim(n, iter)

SpecStart == Init /\ [][NextStart]_vars

(***************************************************************************)
(* The API key middleware (main.rs 36-56), layered over every route        *)
(* (main.rs 95-104). A header value is a byte string; HeaderValue::to_str  *)
(* yields its text only when every byte is visible ASCII.                  *)
(***************************************************************************)
SecretKey == "secret-key"
WrongKey == "wrong-key"
\* a key with a byte outside visible ASCII (a UTF-8 encoded letter)
OpaqueKey == "secret-key-with-byte-0xC3"

ApiKeys == {None, Some(SecretKey), Some(OpaqueKey)}
HeaderValues == {None, Some(SecretKey), Some(WrongKey), Some(OpaqueKey)}

\* HeaderValue::to_str
to_str(v) == IF v = OpaqueKey THEN None ELSE Some(v)

\* auth_middleware: TRUE when the request goes on to next.run
auth_middleware(cfg, header) ==
    IF cfg.api_key = None THEN TRUE
    ELSE LET auth_header == IF header = None THEN None ELSE to_str(header[1]) IN
         auth_header # None /\ auth_header[1] = cfg.api_key[1]

Unauthorized == [ok |-> FALSE, error |-> "Unauthorized", arg |-> None]

\* a request with the X-API-Key header `header` to the route whose handler
\* is the action `handler`
Route(header, handler) ==
    IF auth_middleware(config, header)
    THEN handler
    ELSE /\ resp' = Unauthorized
         /\ UNCHANGED <<config, capacity, builds, nextId, jobVars, obs, histVars>>

\* GET /build/:id
GetBuild(id) ==
    /\ resp' = get_build_handler(builds, id)
    /\ UNCHANGED <<config, capacity, builds, nextId, jobVars, obs, histVars>>

PostBuild(header, req) == Route(header, StartBuild(req))
GetBuildStatus(header, id) == Route(header, GetBuild(id))
DeleteBuild(header, id) == Route(header, CancelBuild(id))

InitAuth ==
    /\ config \in {[allowed_paths |-> None, api_key |-> k] : k \in ApiKeys}
    /\ builds = <<>>
    /\ nextId = 1
    /\ capacity = ChanCap
    /\ resp = None
    /\ pc = [j \in Jobs |-> "idle"]
    /\ proc = [j \in Jobs |-> NoProc]
    /\ rlogs = [j \in Jobs |-> <<>>]
    /\ params = [j \in Jobs |-> None]
    /\ build_dir = [j \in Jobs |-> None]
    /\ chan = [j \in Jobs |-> <<>>]
    /\ txOpen = [j \in Jobs |-> FALSE]
    /\ coll = [j \in Jobs |-> [pc |-> "none"]]
    /\ obs = <<>>
    /\ InitHistory

\* SpecAuth: the build routes behind the middleware, and the tasks of a job
\* that writes nothing
NextAuth ==
    \/ \E header \in HeaderValues, req \in ProjectRequests : PostBuild(header, req)
    \/ \E header \in HeaderValues, id \in Jobs : GetBuildStatus(header, id)
    \/ \E header \in HeaderValues, id \in Jobs : DeleteBuild(header, id)
    \/ \E j \in Jobs : RunJobTask(j)
    \/ \E j \in Jobs : SpawnOk(j)
    \/ \E j \in Jobs : SpawnFail(j)
    \/ \E j \in Jobs, status \in ExitStatuses : ProcExit(j, status)
    \/ \E j \in Jobs : ReadStdout(j)
    \/ \E j \in Jobs : WaitExit(j)
    \/ \E j \in Jobs : WaitErr(j)
    \/ \E j \in Jobs : Finalize(j)
    \/ \E j \in Jobs : CollRecv(j)

SpecAuth == InitAuth /\ [][NextAuth]_vars

\* SpecRun: a build or a test job whose process writes lines with any of the
\* markers, from the request to the finalized record and the end of the log
\* collector, with cancellation requests and without reclamation; the
\* request is one that start_build accepts (the rejected ones are in SpecStart)
NextRun ==
    \/ StartBuild([project |-> Some(InPath), workspace |-> None, scheme |-> "App"])
    \/ StartTest([project |-> Some(InPath), workspace |-> None, scheme |-> "App"])
    \/ \E j \in Jobs : RunJobTask(j)
    \/ \E j \in Jobs : SpawnOk(j)
    \/ \E j \in Jobs : SpawnFail(j)
    \/ \E j \in Jobs, stream \in {"stdout", "stderr"}, marks \in RunMarks : ProcWrite(j, stream, marks)
    \/ \E j \in Jobs, status \in ExitStatuses : ProcExit(j, status)
    \/ \E j \in Jobs : ReadStdout(j)
    \/ \E j \in Jobs : ReadStderr(j)
    \/ \E j \in Jobs : WaitExit(j)
    \/ \E j \in Jobs : WaitErr(j)
    \/ \E j \in Jobs : Finalize(j)
    \/ \E j \in Jobs : CollRecv(j)
    \/ \E j \in Jobs : CollAppend(j)
    \/ \E id \in Jobs : CancelBuild(id)

SpecRun == Init /\ [][NextRun]_vars

(***************************************************************************)
(* The log observer: build_logs (build.rs 159-198), the same code as        *)
(* test_logs (test.rs 191-233).                                            *)
(***************************************************************************)
Observers == {"o1", "o2"}

\* Event::default().data(line) and Event::default().event("complete").data(status)
LineEvent(line) == [event |-> "message", data |-> line]
CompleteEvent(status) == [event |-> "complete", data |-> status]

\* Iterator::skip
Skip(s, n) == IF n >= Len(s) THEN <<>> ELSE SubSeq(s, n + 1, Len(s))

\* the status name of the completion event (build.rs 183-188)
status_name(build) ==
    CASE build.st = "Success" -> "success"
      [] build.st = "Failed" -> "failed"
      [] build.st = "Cancelled" -> "cancelled"
      [] OTHER -> "unknown"

\* guard: the stream holds a read guard of the registry lock; snap: the copy
\* of the record that get_build returned; pos: the number of lines of the
\* copy the for loop's iterator has passed. pc is where the request is:
\* "verify" in the get_build of the handler ("Verify build exists") with the
\* guard, then where the generator is suspended: "poll" before get_build, "locked" in get_build with the guard,
\* "copied" with get_build's result, "yield" at the yield of a line, "last"
\* at the yield of the completion event, "sleep" in the sleep, "done" ended
IdleObserver ==
    [pc |-> "idle", id |-> 0, last_index |-> 0, events |-> <<>>, guard |-> FALSE, snap |-> None,
     pos |-> 0]

build_logs_unverified(b, build_id) ==
    [IdleObserver EXCEPT !.pc = "poll", !.id = build_id]

\* the request: "Verify build exists", then the stream with last_index = 0
\* (build.rs 163-169)
build_logs(b, build_id) ==
    IF get_build(b, build_id) = None
    THEN [IdleObserver EXCEPT !.pc = "notfound", !.id = build_id]
    ELSE [IdleObserver EXCEPT !.pc = "poll", !.id = build_id]

skip_from(logs, last_index) == Skip(logs, IF last_index > 0 THEN last_index - 1 ELSE 0)

\* the lines a cycle sends: logs.iter().skip(last_index) (build.rs 176)
new_lines(logs, last_index) == Skip(logs, last_index)

get_build_return_holding(b, ob) ==
    [ob EXCEPT !.pc = "copied", !.snap = get_build(b, ob.id)]

\* get_build: builds.get(build_id).cloned(), and the guard, a local of
\* get_build, is dropped when it returns (state.rs 110-111)
get_build_return(b, ob) ==
    [ob EXCEPT !.pc = "copied", !.snap = get_build(b, ob.id), !.guard = FALSE]

\* the generator of the stream runs on from get_build's result or from a
\* yield to its next suspension (build.rs 172-196): the yield of the next
\* line of the copy; when the copy has no further line, the cursor and the
\* yield of the completion event, or the sleep; the end of the stream after
\* the completion event or when the record is absent
resume(ob) ==
    IF ob.pc = "last" THEN [ob EXCEPT !.pc = "done"]
    ELSE IF ob.snap = None THEN [ob EXCEPT !.pc = "done"]
    ELSE LET build == ob.snap[1]
             logs == logs_of(build)
             pos == IF ob.pc = "copied" THEN ob.last_index ELSE ob.pos
             fresh == new_lines(logs, pos)
         IN  IF fresh # <<>>
             THEN [ob EXCEPT !.pc = "yield", !.pos = pos + 1,
                              !.events = Append(@, LineEvent(Head(fresh)))]
             ELSE IF is_complete(build)
             THEN [ob EXCEPT !.pc = "last", !.pos = 0, !.snap = None, !.last_index = Len(logs),
                              !.events = Append(@, CompleteEvent(status_name(build)))]
             ELSE [ob EXCEPT !.pc = "sleep", !.pos = 0, !.snap = None, !.last_index = Len(logs)]

\* one poll_next of the stream while no writer holds the lock: from the top
\* of the loop (the stream just opened, or the sleep over) get_build and
\* then the generator up to its next suspension; from a yield, the
\* generator alone
poll_next(b, ob) ==
    IF ob.pc \in {"poll", "sleep"} THEN resume(get_build_return(b, ob)) ELSE resume(ob)

InitObs ==
    /\ config = [allowed_paths |-> None, api_key |-> None]
    /\ builds = <<>>
    /\ nextId = 1
    /\ capacity = ChanCap
    /\ resp = None
    /\ pc = <<>> /\ proc = <<>> /\ rlogs = <<>> /\ params = <<>> /\ build_dir = <<>>
    /\ chan = <<>> /\ txOpen = <<>> /\ coll = <<>>
    /\ obs = [o \in Observers |-> IdleObserver]
    /\ InitHistory

\* GET /build/:id/logs
Subscribe(o, id) ==
    /\ obs[o].pc = "idle"
    /\ obs' = [obs EXCEPT ![o] = build_logs(builds, id)]
    /\ UNCHANGED <<config, capacity, builds, nextId, resp, jobVars, histVars>>

\* the response body is polled once: Stream::poll_next
Poll(o) ==
    /\ obs[o].pc \in {"poll", "sleep", "yield", "last"}
    /\ obs' = [obs EXCEPT ![o] = poll_next(builds, obs[o])]
    /\ UNCHANGED <<config, capacity, builds, nextId, resp, jobVars, histVars>>

\* the job, seen from the registry: created with a fresh id, its collector's
\* appends, its driver's complete or fail, and the cancellation requests
JobCreate == Create(Jobs)

JobComplete(id, artifacts) ==
    CompleteCall(id, artifacts) /\ final' = FinalAfter(builds, builds', id)

JobFail(id, error, exit_code) ==
    FailCall(id, error, exit_code) /\ final' = FinalAfter(builds, builds', id)

JobCancel(id) ==
    CancelCall(id) /\ final' = FinalAfter(builds, builds', id)

NextObs ==
    \/ JobCreate
    \/ \E id \in Jobs, line \in LineVals : RegAppend(id, line)
    \/ \E id \in Jobs, artifacts \in ArtifactVals : JobComplete(id, artifacts)
    \/ \E id \in Jobs, f \in FailVals : JobFail(id, f[1], f[2])
    \/ \E id \in Jobs : JobCancel(id)
    \/ \E n \in 0..MaxKeep, iter \in IterOrders(builds) : RegCleanup(n, iter)
    \/ \E o \in Observers, id \in Jobs : Subscribe(o, id)
    \/ \E o \in Observers : Poll(o)

SpecObs == InitObs /\ [][NextObs]_vars

(***************************************************************************)
(* Claims on the registry, checked under SpecReg                           *)
(***************************************************************************)
TerminalIds(b) == {id \in DOMAIN b : is_complete(b[id])}
RunningIds(b) == {id \in DOMAIN b : b[id].st = "Running"}

\* C1: the logs of a Running record are exactly the lines appended to it, in
\* call order; the logs of a Success or Failed record are exactly the lines
\* appended while it was Running (an append after the terminal transition is
\* not in them), and an append never creates a record for an absent id.
C1_LogsAreAppendedLines ==
    /\ \A id \in DOMAIN builds :
          /\ id < nextId
          /\ builds[id].st # "Cancelled" => builds[id].logs = applog[id]
    /\ \A id \in Ids \ DOMAIN builds : id >= nextId => applog[id] = <<>>

\* C1 witness: a Running record holds two different lines in the order they
\* were appended, and an append was called on another, terminal record that
\* kept its one line.
C1_Witness ==
    \E id, id2 \in DOMAIN builds :
        /\ builds[id].st = "Running" /\ builds[id].logs = <<"b", "a">>
        /\ builds[id2].st \in {"Success", "Failed"} /\ late[id2]

\* C2: a record that is Success, Failed or Cancelled is not changed by any
\* later append_log, complete, fail or cancel: while it is present it stays
\* exactly the record the first terminal transition left.
C2_TerminalAbsorbing ==
    [][\A id \in DOMAIN builds :
          (is_complete(builds[id]) /\ id \in DOMAIN builds') => builds'[id] = builds[id]]_vars

\* C2 witness: writers were called on two terminal records, one Success and
\* one Cancelled, and both are still what they were.
C2_Witness ==
    \E id, id2 \in DOMAIN builds :
        /\ builds[id].st = "Success" /\ late[id]
        /\ builds[id2].st = "Cancelled" /\ late[id2]

\* C10: in every reachable registry, a reclamation pass with any ceiling and
\* any iteration order removes no Running record (and leaves it as it is),
\* leaves at most max_completed terminal records, and removes nothing when
\* there are at most max_completed terminal records.
C10_Reclaim ==
    \A n \in 0..MaxKeep : \A iter \in IterOrders(builds) :
        LET after == cleanup_old_builds(builds, n, iter) IN
        /\ DOMAIN after \subseteq DOMAIN builds
        /\ \A id \in RunningIds(builds) : id \in DOMAIN after /\ after[id] = builds[id]
        /\ Cardinality(TerminalIds(after)) <= n
        /\ Cardinality(TerminalIds(builds)) <= n => after = builds

\* C10 witness: a pass has evicted a record (an allocated id is absent) while
\* a Running record and a terminal record are still present.
C10_Witness ==
    /\ \E id \in Ids : id < nextId /\ id \notin DOMAIN builds
    /\ RunningIds(builds) # {}
    /\ TerminalIds(builds) # {}

\* C11: a reclamation pass evicts oldest-first by insertion order (ids are
\* allocated in insertion order): for any ceiling and any order in which the
\* map is visited, when a terminal record is removed every terminal record
\* inserted before it is removed too.
C11_OldestFirst ==
    \A n \in 0..MaxKeep : \A iter \in IterOrders(builds) :
        LET after == cleanup_old_builds(builds, n, iter) IN
        \A id \in TerminalIds(builds) \ DOMAIN after :
            \A older \in TerminalIds(builds) : older < id => older \notin DOMAIN after

(***************************************************************************)
(* Claims on the job task and the cancellation request, checked under Spec *)
(***************************************************************************)
StatusOfWriter(writer) ==
    CASE writer = "complete" -> "Success"
      [] writer = "fail" -> "Failed"
      [] writer = "cancel" -> "Cancelled"

\* C3: of the driver's complete or fail and the cancellation requests made on
\* one job, in every interleaving, exactly one changes the record; it decides
\* the terminal state; and a cancellation is answered `cancelled` (cancel
\* returned true) exactly when it is the one that changed the record.
C3_OneWriterWins ==
    \A id \in Jobs :
        /\ Len(took[id]) <= 1
        /\ (pc[id] = "done" \/ acks[id] > 0 \/ IsTerminal(builds, id)) => Len(took[id]) = 1
        /\ IsTerminal(builds, id) => builds[id].st = StatusOfWriter(took[id][1])
        /\ acks[id] = (IF took[id] = <<"cancel">> THEN 1 ELSE 0)

\* C3 witness: the process exited 0 and the driver called complete, but a
\* cancellation had won: the record is Cancelled and one cancel was acknowledged.
C3_Witness ==
    /\ pc[1] = "done" /\ proc[1].code = Some(0)
    /\ took[1] = <<"cancel">> /\ acks[1] = 1
    /\ IsTerminal(builds, 1) /\ builds[1] = Cancelled

\* C4: a cancellation request on a Running job replaces the record by
\* Cancelled, changes no other record and is answered with status
\* `cancelled`; on an absent id or a terminal job it leaves the registry as
\* it is and is answered BuildNotFound.
C4_CancelRequest ==
    [][\A id \in Jobs :
          CancelBuild(id) =>
              IF IsRunning(builds, id)
              THEN /\ builds' = [builds EXCEPT ![id] = Cancelled]
                   /\ resp'.ok /\ resp'.body.status = "cancelled" /\ resp'.body.build_id = id
              ELSE /\ builds' = builds
                   /\ ~resp'.ok /\ resp'.error = "BuildNotFound" /\ resp'.arg = id]_vars

\* C4 witness: a cancellation of a job that had already failed was answered
\* BuildNotFound and the record is still Failed.
C4_Witness ==
    /\ resp # None /\ ~resp.ok /\ resp.error = "BuildNotFound"
    /\ IsTerminal(builds, 1) /\ builds[1].st = "Failed" /\ late[1]
    /\ took[1] = <<"fail">>

\* C5: once a cancellation was acknowledged, the record, while present, is
\* Cancelled with no logs whatever the collector and the driver do afterwards;
\* a status query answers `cancelled`, and another cancellation is answered
\* BuildNotFound and changes nothing.
C5_CancelledIsFrozen ==
    \A id \in Jobs :
        acks[id] > 0 =>
            /\ took[id] = <<"cancel">>
            /\ id \in DOMAIN builds =>
                  /\ builds[id] = Cancelled
                  /\ get_build_handler(builds, id).ok
                  /\ get_build_handler(builds, id).body.status = "cancelled"
                  /\ get_build_handler(builds, id).body.logs = <<>>
            /\ cancel_build_handler(builds, id).builds = builds
            /\ ~cancel_build_handler(builds, id).resp.ok
            /\ cancel_build_handler(builds, id).resp.error = "BuildNotFound"

\* C5 witness: the job was cancelled before its one line was recorded; the
\* collector then took the line from the queue and called append, the process
\* exited, the driver finalized, a second cancellation was answered
\* BuildNotFound, and the record is still Cancelled.
C5_Witness ==
    /\ acks[1] = 1 /\ late[1]
    /\ pc[1] = "done" /\ coll[1].pc = "exit"
    /\ Len(rlogs[1]) = 1 /\ applog[1] = <<>>
    /\ 1 \in DOMAIN builds /\ builds[1] = Cancelled
    /\ resp # None /\ ~resp.ok /\ resp.error = "BuildNotFound"

(***************************************************************************)
(* Claims on the log observer, checked under SpecObs                       *)
(***************************************************************************)
IsLine(e) == e.event = "message"
IsComplete(e) == e.event = "complete"

\* the lines an observer has emitted, in the order of emission
LineData(ob) ==
    LET ls == SelectSeq(ob.events, IsLine) IN [i \in 1..Len(ls) |-> ls[i].data]

CompleteEvents(ob) == SelectSeq(ob.events, IsComplete)

IsPrefix(s, t) == Len(s) <= Len(t) /\ s = SubSeq(t, 1, Len(s))

LastEvent(ob) == ob.events[Len(ob.events)]

\* C6 as claimed: a stream that ended with its completion event has emitted
\* every line appended to the job, whichever terminal state the job is in.
C6_EveryLineWhicheverState ==
    \A o \in Observers :
        (obs[o].pc = "done" /\ CompleteEvents(obs[o]) # <<>>) =>
            LineData(obs[o]) = applog[obs[o].id]

\* the copy of the record that the cycle observer o is in, or enters with
\* this poll, works from
CycleCopy(o) ==
    IF obs[o].pc \in {"poll", "sleep"} THEN get_build(builds, obs[o].id) ELSE obs[o].snap

\* C6 amended: at every moment the lines an observer has emitted are a prefix
\* of the lines appended to the job (each once, in log order, no gap); every
\* cycle that reads a Running, Success or Failed record leaves the observer,
\* when the cycle reaches its sleep or its completion event, with every line
\* of that copy of the log emitted, however many lines are new; and a stream
\* that ends with `success` or `failed` has emitted every line of the job.
\* (A Cancelled record has no log: the lines appended after the observer's
\* last cycle and before the cancellation are not emitted.)
C6_ExactlyOnceInOrder ==
    [][\A o \in Observers : obs'[o].pc \in {"yield", "sleep", "last", "done"} =>
          /\ IsPrefix(LineData(obs'[o]), applog'[obs'[o].id])
          /\ obs'[o].pc = "sleep" => obs'[o].last_index = Len(LineData(obs'[o]))
          /\ (Poll(o) /\ obs'[o].pc \in {"sleep", "last"}
                /\ CycleCopy(o) # None /\ CycleCopy(o)[1].st # "Cancelled")
                => LineData(obs'[o]) = CycleCopy(o)[1].logs
          /\ (obs'[o].events # <<>> /\ LastEvent(obs'[o]).event = "complete"
                /\ LastEvent(obs'[o]).data \in {"success", "failed"})
                => LineData(obs'[o]) = applog'[obs'[o].id]]_vars

\* C6 witness: one stream ended `failed` after the job's two lines, while the
\* other observer, a cycle behind, sleeps after the first line only.
C6_Witness ==
    /\ obs["o1"].pc = "done"
    /\ LineData(obs["o1"]) = <<"a", "b">>
    /\ LastEvent(obs["o1"]) = CompleteEvent("failed")
    /\ obs["o2"].pc = "sleep" /\ LineData(obs["o2"]) = <<"a">>

\* C7: a stream opened for a job that was known at subscribe time and that has
\* ended carries exactly one completion event, as its last event, with the
\* name of the job's terminal state.
C7_OneCompletionEvent ==
    \A o \in Observers :
        obs[o].pc = "done" =>
            /\ Len(CompleteEvents(obs[o])) = 1
            /\ IsComplete(LastEvent(obs[o]))
            /\ final[obs[o].id] # None
            /\ LastEvent(obs[o]).data = status_name(final[obs[o].id][1])

\* C8: a log-stream request for an id that is absent from the registry is
\* answered not-found and its stream carries no event, then or later.
C8_AbsentNoEvents ==
    [][\A o \in Observers :
          /\ (obs[o].pc = "idle" /\ obs'[o].pc # "idle" /\ obs'[o].id \notin DOMAIN builds)
                => (obs'[o].pc = "notfound" /\ obs'[o].events = <<>>)
          /\ obs[o].pc = "notfound" => obs'[o] = obs[o]]_vars

\* C8 witness: one observer followed the job to its end; the other asked
\* after the record was evicted and was answered not-found.
C8_Witness ==
    /\ obs["o1"].pc = "done" /\ Len(obs["o1"].events) = 2
    /\ obs["o2"].pc = "notfound" /\ obs["o2"].events = <<>>
    /\ obs["o2"].id < nextId /\ obs["o2"].id \notin DOMAIN builds

\* C9: every observer of a job that ended in Success or Failed, whenever it
\* subscribed, has delivered when its stream ends the job's final logs from
\* the first line on, followed by the completion event of that state.
C9_SameReplay ==
    \A o \in Observers :
        LET id == obs[o].id IN
        (obs[o].pc = "done" /\ final[id] # None /\ final[id][1].st \in {"Success", "Failed"}) =>
            obs[o].events =
                [i \in 1..Len(final[id][1].logs) |-> LineEvent(final[id][1].logs[i])]
                    \o <<CompleteEvent(status_name(final[id][1]))>>

(***************************************************************************)
(* Claims on the job-start requests, checked under SpecStart               *)
(***************************************************************************)
JobKinds == {"build", "test"}

\* the paths a request names
PathsOf(req) ==
    (IF req.project # None THEN {req.project[1]} ELSE {})
    \cup (IF req.workspace # None THEN {req.workspace[1]} ELSE {})

\* C12: a job-start request that names no project and no workspace is
\* answered InvalidRequest, one whose paths all lie outside the allowed roots
\* is answered PathNotAllowed, and every job-start request answered with an
\* error leaves the registry, the id counter and the job tasks as they were.
C12_RejectedStartChangesNothing ==
    [][\A kind \in JobKinds, req \in Requests : start_job(kind, req) =>
          /\ PathsOf(req) = {} => (~resp'.ok /\ resp'.error = "InvalidRequest")
          /\ (PathsOf(req) # {} /\ PathsOf(req) \subseteq {OutPath})
                => (~resp'.ok /\ resp'.error = "PathNotAllowed")
          /\ ~resp'.ok => (builds' = builds /\ nextId' = nextId /\ UNCHANGED jobVars)]_vars

\* C12 witness: a job was accepted and finalized, and a later request was
\* rejected by the allowlist: the registry still holds that one record.
C12_Witness ==
    /\ resp # None /\ ~resp.ok /\ resp.error = "PathNotAllowed"
    /\ nextId = 2 /\ DOMAIN builds = {1} /\ builds[1].st = "Failed"

\* the canonical form of `path` exists and lies in or at the canonical form
\* of `root`
ResolvesUnder(path, root) ==
    /\ canonicalize(path) # None
    /\ canonicalize(root) # None
    /\ IsPrefix(canonicalize(root)[1], canonicalize(path)[1])

\* C13: is_path_allowed accepts a path exactly when no allowlist is
\* configured or the path's canonical form is at or below the canonical form
\* of one of the configured roots; with the single root `allowed` it accepts
\* the root, the project in it and the outside link that resolves into it, and
\* rejects the outside path, the link and the `..` path that leave the root,
\* and the path that does not exist.
C13_PathAllowed ==
    resp # None =>
        /\ resp.allowed <=>
              \/ config.allowed_paths = None
              \/ \E i \in DOMAIN config.allowed_paths[1] :
                     ResolvesUnder(resp.path, config.allowed_paths[1][i])
        /\ config.allowed_paths = Some(<<AllowedRoot>>) =>
              (resp.allowed <=> resp.path \in {AllowedRoot, InPath, BackLinkPath})

\* C13 witness: under the single root `allowed`, the link that lies in the
\* root by its text and resolves outside it was checked and rejected.
C13_Witness ==
    /\ config.allowed_paths = Some(<<AllowedRoot>>)
    /\ resp = [path |-> LinkPath, allowed |-> FALSE]

\* C14: with an allowlist configured, every project and workspace path of a
\* registered job's parameters, and every path that follows `-project` or
\* `-workspace` on the command line of a launched process, passes the
\* allowlist check.
C14_OnlyAllowedPathsLaunched ==
    config.allowed_paths # None =>
        \A j \in Jobs :
            /\ params[j] # None =>
                  \A path \in PathsOf(params[j][1]) : is_path_allowed(config, path)
            /\ \A i \in DOMAIN proc[j].args :
                  proc[j].args[i] \in {"-project", "-workspace"}
                      => is_path_allowed(config, proc[j].args[i + 1])

\* C15: a job-start request that is accepted answers status `running` with a
\* fresh id whose record is, when the answer is given, Running with empty logs
\* while the job task has not yet taken a step; from then on a status query
\* for a present id finds the record, and a record leaves the registry in no
\* step but a reclamation pass.
C15_RegisteredBeforeResponse ==
    [][/\ \A kind \in JobKinds, req \in Requests :
             (start_job(kind, req) /\ resp'.ok) =>
                 /\ resp'.body = [build_id |-> nextId, status |-> "running"]
                 /\ nextId \notin DOMAIN builds
                 /\ get_build(builds', nextId) = Some(Running(<<>>))
                 /\ pc'[nextId] = "spawned" /\ proc'[nextId] = NoProc
                 /\ coll'[nextId].pc = "none" /\ ~txOpen'[nextId]
       /\ \A id \in 1..(nextId' - 1) :
             \/ get_build_handler(builds', id).ok
             \/ \E n \in 0..MaxKeep, iter \in IterOrders(builds) : Reclaim(n, iter)
             \/ id \notin DOMAIN builds]_vars

\* C15 witness: the job task ran to its end after the start response and the
\* record is present, finalized.
C15_Witness ==
    /\ resp # None /\ resp.ok /\ resp.body = [build_id |-> 1, status |-> "running"]
    /\ pc[1] = "done" /\ get_build_handler(builds, 1).ok
    /\ get_build_handler(builds, 1).body.status = "success"

(***************************************************************************)
(* Claims on the job's outcome, checked under Spec and SpecRun             *)
(***************************************************************************)
\* C16: once a job whose process exited 0 is finalized as Success and its log
\* collector has ended, a status query returns as logs every line the runner
\* captured, in order.
C16_FullLogsOnSuccess ==
    \A j \in Jobs :
        (pc[j] = "done" /\ coll[j].pc = "exit" /\ j \in DOMAIN builds
            /\ builds[j].st = "Success") =>
                get_build_handler(builds, j).body.logs = rlogs[j]

\* the status name a state is reported under
status_name_of(st) ==
    CASE st = "Running" -> "running"
      [] st = "Success" -> "success"
      [] st = "Failed" -> "failed"
      [] st = "Cancelled" -> "cancelled"

\* the runner of job j returned an outcome: the process ran and was waited for
RunnerReturned(j) == pc[j] = "done" /\ proc[j].waited = "ok"

\* C17: once the runner has returned an outcome and the job task has finalized
\* a record that was not cancelled, a status query reports `success` exactly
\* when the process exited 0, then with the artifact directory the runner
\* recorded (none recorded, or a test job: the empty list), and otherwise
\* `failed` with the process's exit code (-1 when it ended without one) and no
\* artifacts; a recorded directory is that of a captured line with the marker.
C17_FinalizedByExit ==
    \A j \in Jobs :
        /\ build_dir[j] # None =>
              \E i \in DOMAIN rlogs[j] :
                  BuildDirMarker \in rlogs[j][i].marks /\ build_dir[j] = Some([dir |-> rlogs[j][i].n])
        /\ (RunnerReturned(j) /\ j \in DOMAIN builds /\ builds[j].st # "Cancelled") =>
              LET r == get_build_handler(builds, j).body
                  code == proc[j].code
              IN  IF code = Some(0)
                  THEN /\ r.status = "success" /\ r.exit_code = Some(0) /\ r.error = None
                       /\ r.artifacts =
                             Some(IF params[j][1].kind = "test" \/ build_dir[j] = None
                                  THEN <<>> ELSE <<build_dir[j][1]>>)
                  ELSE /\ r.status = "failed" /\ r.artifacts = None
                       /\ r.exit_code = Some(IF code = None THEN -1 ELSE code[1])

\* C17 witness: a build whose process named a directory on stdout and exited
\* 0 is Success with that directory as its artifact.
C17_Witness ==
    /\ RunnerReturned(1) /\ params[1][1].kind = "build" /\ proc[1].code = Some(0)
    /\ 1 \in DOMAIN builds /\ builds[1].st = "Success"
    /\ Len(rlogs[1]) = 2 /\ builds[1].artifacts = <<[dir |-> 1]>>

\* a captured line carries a failure marker of the job kind
HasFailureMarker(line, kind) ==
    \/ ErrorMarker \in line.marks
    \/ kind = "test" /\ TestFailedMarker \in line.marks

\* C18: the error summary of a Failed record written after the process ended
\* is the last captured line that carries a failure marker of the job kind,
\* and it is `Build failed` (build) or `Tests failed` (test) exactly when no
\* captured line carries one.
C18_ErrorSummary ==
    \A j \in Jobs :
        (RunnerReturned(j) /\ j \in DOMAIN builds /\ builds[j].st = "Failed") =>
            LET kind == params[j][1].kind
                marked == {i \in DOMAIN rlogs[j] : HasFailureMarker(rlogs[j][i], kind)}
                generic == [msg |-> IF kind = "test" THEN "Tests failed" ELSE "Build failed"]
                error == get_build_handler(builds, j).body.error[1]
            IN  /\ marked = {} <=> error = generic
                /\ marked # {} =>
                      \E i \in marked : error = rlogs[j][i] /\ \A k \in marked : k <= i

\* C18 witness: a test whose process wrote a TEST FAILED line and then an
\* error line failed with the second of them as its summary.
C18_Witness ==
    /\ RunnerReturned(1) /\ params[1][1].kind = "test"
    /\ 1 \in DOMAIN builds /\ builds[1].st = "Failed"
    /\ Len(rlogs[1]) = 2
    /\ rlogs[1][1].marks = {TestFailedMarker} /\ rlogs[1][2].marks = {ErrorMarker}
    /\ builds[1].error = rlogs[1][2]

\* C19: the answer to a status query names the record's state; it carries an
\* exit code only for a Success record or for a Failed record whose runner
\* returned the process's outcome, an artifact list exactly for a Success
\* record and an error summary exactly for a Failed record, so that a Running
\* or Cancelled record carries none of the three.
C19_StatusFields ==
    \A id \in DOMAIN builds :
        LET r == get_build_handler(builds, id).body
            st == builds[id].st
        IN  /\ r.build_id = id
            /\ r.status = status_name_of(st)
            /\ r.exit_code # None <=> (st = "Success" \/ (st = "Failed" /\ RunnerReturned(id)))
            /\ r.artifacts # None <=> st = "Success"
            /\ r.error # None <=> st = "Failed"
            /\ st \in {"Running", "Cancelled"} =>
                  (r.exit_code = None /\ r.artifacts = None /\ r.error = None)

\* C19 witness: a Failed record of a process that exited 65.
C19_Witness ==
    /\ 1 \in DOMAIN builds /\ builds[1].st = "Failed"
    /\ get_build_handler(builds, 1).body.exit_code = Some(65)
    /\ get_build_handler(builds, 1).body.artifacts = None

(***************************************************************************)
(* Claim on the API key, checked under SpecAuth                            *)
(***************************************************************************)
\* a request with header `header` lacks the configured key
LacksKey(header) == config.api_key # None /\ header # config.api_key

\* C20: with an API key configured, a request to a build route whose
\* X-API-Key header is missing or differs from the key is answered
\* Unauthorized and changes nothing, and a request whose header is the key
\* reaches the handler; with no key configured every request reaches it.
C20_ApiKey ==
    [][\A header \in HeaderValues :
          LET routed == \/ \E req \in ProjectRequests : PostBuild(header, req)
                        \/ \E id \in Jobs : GetBuildStatus(header, id)
                        \/ \E id \in Jobs : DeleteBuild(header, id)
          IN  routed =>
                /\ LacksKey(header) =>
                      (resp' = Unauthorized /\ builds' = builds /\ nextId' = nextId
                         /\ UNCHANGED jobVars)
                /\ ~LacksKey(header) => resp' # Unauthorized]_vars

(***************************************************************************)
(* Claims on the runner's select loop (xcodebuild.rs 169-217)              *)
(***************************************************************************)
\* the runner has left the select loop of a launched process (and
\* child.wait() has not failed)
LeftLoop(j) ==
    pc[j] \in {"wait", "ok", "done"} /\ proc[j].st # "none" /\ proc[j].waited # "err"

\* C21: once the runner has stopped reading the streams of a process that
\* has exited, every line the process wrote to either stream has been read:
\* both pipes are empty and the captured log holds as many lines as were
\* written.
C21_BothStreamsDrained ==
    \A j \in Jobs :
        LeftLoop(j) /\ proc[j].st = "exited" =>
            /\ proc[j].out = <<>>
            /\ proc[j].err = <<>>
            /\ Len(rlogs[j]) = proc[j].nw

(***************************************************************************)
(* The pipes of the external process. A pipe holds at most PipeCap lines:  *)
(* a write to a full pipe blocks the process until the runner reads. The   *)
(* tool of SpecPipe writes MaxLines lines, may close its stdout on the way *)
(* and exits when all its lines are written, so it terminates whenever     *)
(* both pipes keep being read.                                             *)
(***************************************************************************)
PipeCap == 1

\* write(2) on a pipe: enabled while the pipe has room
ProcWritePiped(j, stream, marks) ==
    /\ Len(IF stream = "stdout" THEN proc[j].out ELSE proc[j].err) < PipeCap
    /\ ProcWrite(j, stream, marks)

\* the process closes its stdout and goes on running
ProcCloseStdout(j) ==
    /\ proc[j].st = "running"
    /\ ~proc[j].closed
    /\ proc' = [proc EXCEPT ![j].closed = TRUE]
    /\ UNCHANGED <<config, capacity, params, build_dir, builds, nextId, resp, pc, rlogs, chan, txOpen, coll, obs, histVars>>

\* the tool exits once it has written all its lines
ProcExitDone(j, status) ==
    /\ TotalWritten = MaxLines
    /\ ProcExit(j, status)

\* stdout_reader.next_line() returns Err: warn and break (xcodebuild.rs 184-187)
ReadStdoutErr(j) ==
    /\ pc[j] = "select"
    /\ pc' = [pc EXCEPT ![j] = "wait"]
    /\ proc' = [proc EXCEPT ![j].failed = @ \cup {"stdout"}]
    /\ UNCHANGED <<config, capacity, params, build_dir, builds, nextId, resp, rlogs, chan, txOpen, coll, obs, histVars>>

\* stderr_reader.next_line() returns Err: warn, and the loop goes round
\* (xcodebuild.rs 198-200)
ReadStderrErr(j) ==
    /\ pc[j] = "select"
    /\ "stderr" \notin proc[j].failed
    /\ proc' = [proc EXCEPT ![j].failed = @ \cup {"stderr"}]
    /\ UNCHANGED <<config, capacity, params, build_dir, builds, nextId, resp, pc, rlogs, chan, txOpen, coll, obs, histVars>>

NextPipe ==
    \/ StartBuild([project |-> Some(InPath), workspace |-> None, scheme |-> "App"])
    \/ \E j \in Jobs : RunJobTask(j)
    \/ \E j \in Jobs : SpawnOk(j)
    \/ \E j \in Jobs : SpawnFail(j)
    \/ \E j \in Jobs, stream \in {"stdout", "stderr"}, marks \in LineMarks : ProcWritePiped(j, stream, marks)
    \/ \E j \in Jobs : ProcCloseStdout(j)
    \/ \E j \in Jobs, status \in ExitStatuses : ProcExitDone(j, status)
    \/ \E j \in Jobs : ReadStdout(j)
    \/ \E j \in Jobs : ReadStdoutErr(j)
    \/ \E j \in Jobs : ReadStderr(j)
    \/ \E j \in Jobs : ReadStderrErr(j)
    \/ \E j \in Jobs : WaitExit(j)
    \/ \E j \in Jobs : WaitErr(j)
    \/ \E j \in Jobs : Finalize(j)
    \/ \E j \in Jobs : CollRecv(j)
    \/ \E j \in Jobs : CollAppend(j)

\* the scheduling of the tasks: the tokio runtime polls every ready task, so
\* the job's task (spawn, either ready branch of the select, wait, the
\* finalization) and the collector take their steps; the process keeps
\* running while it is not blocked. Closing stdout and read errors are not
\* owed to anyone.
FairPipe ==
    \A j \in Jobs :
        /\ WF_vars(RunJobTask(j))
        /\ WF_vars(SpawnOk(j) \/ SpawnFail(j))
        /\ WF_vars(\E stream \in {"stdout", "stderr"}, marks \in LineMarks : ProcWritePiped(j, stream, marks))
        /\ WF_vars(\E status \in ExitStatuses : ProcExitDone(j, status))
        /\ WF_vars(ReadStdout(j))
        /\ WF_vars(ReadStderr(j))
        /\ WF_vars(WaitExit(j) \/ WaitErr(j))
        /\ WF_vars(Finalize(j))
        /\ WF_vars(CollRecv(j))
        /\ WF_vars(CollAppend(j))

\* SpecPipe: a build job over bounded pipes, with read errors, under the
\* scheduling above
SpecPipe == Init /\ [][NextPipe]_vars /\ FairPipe

IsRunningJob(j) == j \in DOMAIN builds /\ builds[j].st = "Running"

\* C22: every accepted job eventually leaves Running: the runner keeps
\* reading every stream the process can still block on, so the tool
\* terminates and the record is finalized.
C22_EveryJobLeavesRunning ==
    \A j \in Jobs : IsRunningJob(j) ~> ~IsRunningJob(j)

\* C23: when a read of stdout has failed, the runner still drains stderr to
\* its end: once it has left the loop of an exited process, no line is left
\* in the stderr pipe, and the result carries the process's exit status.
C23_OtherStreamDrained ==
    \A j \in Jobs :
        LeftLoop(j) /\ proc[j].st = "exited" /\ proc[j].failed = {"stdout"} =>
            /\ proc[j].err = <<>>
            /\ (pc[j] = "done" /\ ~success_of(proc[j].code)) =>
                   /\ builds[j].st = "Failed"
                   /\ builds[j].exit_code = Some(exit_code_of(proc[j].code))

(***************************************************************************)
(* Claims on the job task (build.rs 73-123, test.rs 73-119)                *)
(***************************************************************************)
\* run_xcodebuild returned Err because cmd.spawn() failed
SpawnFailed(j) == pc[j] = "err" /\ proc[j].st = "none"

\* C24: when the process cannot be started the runner returns its error
\* without having called the sink (nothing captured, queued or appended),
\* neither that step nor the finalization answers any request, and the
\* finalization turns a record still Running into Failed with empty logs, no
\* exit code and the startup error's message, which the status query reports
\* as such.
C24_SpawnFailure ==
    [][\A j \in Jobs :
        /\ SpawnFail(j) =>
             /\ resp' = resp /\ builds' = builds
             /\ rlogs'[j] = <<>> /\ chan'[j] = <<>> /\ applog'[j] = <<>>
        /\ (SpawnFailed(j) /\ Finalize(j)) =>
             /\ resp' = resp
             /\ rlogs[j] = <<>> /\ chan[j] = <<>> /\ applog[j] = <<>>
             /\ IsRunningJob(j) =>
                  /\ builds'[j] = Failed(<<>>, [msg |-> SpawnError], None)
                  /\ get_build_handler(builds', j) =
                       Ok(BuildStatusResponse(j, "failed", None, None,
                                              Some([msg |-> SpawnError]), <<>>))]_vars

C24_Witness ==
    /\ pc[1] = "done" /\ proc[1].st = "none"
    /\ 1 \in DOMAIN builds
    /\ builds[1] = Failed(<<>>, [msg |-> SpawnError], None)
    /\ resp # None /\ resp.ok

\* C25: handing a line to the sink never blocks the runner: a line waiting
\* in a pipe can be read whatever the queue holds, and the read adds the line
\* to the runner's captured log, queues it when the queue has room and drops
\* it from the queue when it is full, without changing the registry or the
\* runner's position. The finalization of a record still Running decides
\* Success or Failed by the exit status alone, whatever was dropped.
C25_SinkNeverBlocks ==
    [][\A j \in Jobs :
        /\ (pc[j] = "select" /\ proc[j].out # <<>>) => ENABLED ReadStdout(j)
        /\ (pc[j] = "select" /\ proc[j].err # <<>>) => ENABLED ReadStderr(j)
        /\ ((ReadStdout(j) \/ ReadStderr(j)) /\ proc'[j] # proc[j]) =>
             LET line == rlogs'[j][Len(rlogs'[j])] IN
             /\ rlogs'[j] = Append(rlogs[j], line)
             /\ chan'[j] = IF Len(chan[j]) < capacity THEN Append(chan[j], line) ELSE chan[j]
             /\ Len(chan'[j]) <= capacity
             /\ builds' = builds /\ pc' = pc
        /\ (pc[j] = "ok" /\ Finalize(j) /\ IsRunningJob(j)) =>
             builds'[j].st = IF success_of(proc[j].code) THEN "Success" ELSE "Failed"]_vars

\* a line was dropped at the full queue and the job succeeded: the runner
\* captured more lines than the collector, now ended, has appended, and no
\* append came after the finalization
C25_Witness ==
    /\ 1 \in DOMAIN builds /\ builds[1].st = "Success"
    /\ Len(rlogs[1]) > Len(applog[1]) /\ builds[1].logs = applog[1]
    /\ coll[1].pc = "exit" /\ ~late[1]

\* C26: the error of a Failed record that is neither the generic summary nor
\* a startup error (both messages, not lines) is one of the lines of the
\* record's own logs.
C26_ErrorInOwnLogs ==
    \A id \in DOMAIN builds :
        (builds[id].st = "Failed" /\ "msg" \notin DOMAIN builds[id].error) =>
            builds[id].error \in Range(builds[id].logs)

(***************************************************************************)
(* Claims on the logs a record holds, checked under SpecReg                *)
(***************************************************************************)
\* C27: complete and fail on a Running record produce Success and Failed
\* with exactly the logs the record held immediately before; the logs of a
\* Success or Failed record never change afterwards; the logs of a record
\* that stays Running change only by one line appended at the end.
C27_LogsKept ==
    [][\A id \in DOMAIN builds :
        id \in DOMAIN builds' =>
            LET old == builds[id]
                new == builds'[id]
            IN  CASE old.st = "Running" ->
                       /\ new.st \in {"Success", "Failed"} => new.logs = old.logs
                       /\ new.st = "Running" =>
                            \/ new.logs = old.logs
                            \/ \E line \in LineVals : new.logs = Append(old.logs, line)
                       /\ \A artifacts \in ArtifactVals :
                            RegComplete(id, artifacts) => new = Success(old.logs, artifacts)
                       /\ \A f \in FailVals :
                            RegFail(id, f[1], f[2]) => new = Failed(old.logs, f[1], f[2])
                  [] old.st \in {"Success", "Failed"} ->
                       new.st = old.st /\ new.logs = old.logs
                  [] OTHER -> TRUE]_vars

\* a Failed record that holds the lines appended while it was Running, after
\* a later call of a writer on it
C27_Witness ==
    \E id \in DOMAIN builds :
        /\ builds[id].st = "Failed" /\ late[id]
        /\ builds[id].logs # <<>> /\ builds[id].logs = applog[id]

(***************************************************************************)
(* Claims on a cancelled record, checked under SpecObs                     *)
(***************************************************************************)
\* C28: cancelling a Running record leaves the bare Cancelled record, its
\* logs discarded; the status query of a Cancelled record answers
\* `cancelled` with an empty log, no exit code, no artifacts and no error;
\* and the cycle of an observer that reads a Cancelled record emits no line,
\* only the completion event `cancelled`, after which the stream ends.
C28_CancelDiscardsLogs ==
    [][\A id \in DOMAIN builds' :
        /\ (JobCancel(id) /\ IsRunning(builds, id)) => builds'[id] = Cancelled
        /\ builds'[id].st = "Cancelled" =>
             /\ logs_of(builds'[id]) = <<>>
             /\ get_build_handler(builds', id) =
                  Ok(BuildStatusResponse(id, "cancelled", None, None, None, <<>>))
        /\ \A o \in Observers :
             /\ (Poll(o) /\ obs[o].pc \in {"poll", "sleep"} /\ obs[o].id = id
                   /\ IsTerminal(builds, id) /\ builds[id].st = "Cancelled") =>
                    /\ obs'[o].events = Append(obs[o].events, CompleteEvent("cancelled"))
                    /\ obs'[o].pc = "last"
             /\ (Poll(o) /\ obs[o].pc = "last") =>
                    obs'[o].events = obs[o].events /\ obs'[o].pc = "done"]_vars

\* a job was cancelled after lines had been appended, and an observer
\* that subscribed afterwards got the completion event and no line
C28_Witness ==
    \E o \in Observers :
        /\ obs[o].pc = "done" /\ obs[o].events = <<CompleteEvent("cancelled")>>
        /\ obs[o].id \in DOMAIN builds /\ builds[obs[o].id] = Cancelled
        /\ applog[obs[o].id] # <<>>

(***************************************************************************)
(* SpecServe: the registry as the running service drives it. The handlers  *)
(* create records and cancel them, the collectors append their lines, the  *)
(* job tasks complete or fail them;                                        *)
(* cleanup_old_builds ("call periodically", state.rs 125) has no caller:   *)
(* main (main.rs 107-166) starts no periodic task and no handler calls it, *)
(* so no step of the service is a reclamation pass. Every task of the      *)
(* service that can take a step eventually takes one.                      *)
(***************************************************************************)
NextServe ==
    \/ ReclaimCreate
    \/ \E id \in Ids, line \in LineVals : RegAppend(id, line)
    \/ \E id \in Ids, artifacts \in ArtifactVals : RegComplete(id, artifacts)
    \/ \E id \in Ids, f \in FailVals : RegFail(id, f[1], f[2])
    \/ \E id \in Ids : RegCancel(id)

SpecServe == InitReg /\ [][NextServe]_vars /\ WF_vars(NextServe)

\* C29: whatever the retention ceiling, once the registry holds more
\* terminal records than the ceiling, terminal records are eventually
\* evicted down to the ceiling.
C29_EventuallyEvicted ==
    \A n \in 0..MaxKeep :
        (Cardinality(TerminalIds(builds)) > n) ~> (Cardinality(TerminalIds(builds)) <= n)

(***************************************************************************)
(* SpecLock: the registry lock (state.rs 37, a tokio RwLock) and the       *)
(* stream of build_logs taken step by step. A writer of the registry holds *)
(* the write guard for the length of its call, so it takes its step only   *)
(* when no read guard is held; the stream takes the read guard inside      *)
(* get_build (state.rs 108-111), then works on the copy and sleeps. The    *)
(* handler takes it too, in the get_build that verifies the build exists   *)
(* (build.rs 164), before the stream is built.                             *)
(***************************************************************************)
NoReader == \A o \in Observers : ~obs[o].guard

\* GET /build/:id/logs, the handler's get_build: self.builds.read().await
\* (build.rs 164, state.rs 109)
VerifyLock(o, id) ==
    /\ obs[o].pc = "idle"
    /\ obs' = [obs EXCEPT ![o] = [IdleObserver EXCEPT !.pc = "verify", !.id = id, !.guard = TRUE]]
    /\ UNCHANGED <<config, capacity, builds, nextId, resp, jobVars, histVars>>

\* the handler's get_build returns and drops the guard; BuildNotFound, or
\* the stream with last_index = 0 (build.rs 164-169, state.rs 110-111)
VerifyReturn(o) ==
    /\ obs[o].pc = "verify"
    /\ obs' = [obs EXCEPT ![o] = build_logs(builds, obs[o].id)]
    /\ UNCHANGED <<config, capacity, builds, nextId, resp, jobVars, histVars>>

\* self.builds.write().await, then the writer's call
WriteLocked(writer) == NoReader /\ writer

\* get_build: let builds = self.builds.read().await (state.rs 109)
GetBuildLock(o) ==
    /\ obs[o].pc = "poll"
    /\ obs' = [obs EXCEPT ![o].pc = "locked", ![o].guard = TRUE]
    /\ UNCHANGED <<config, capacity, builds, nextId, resp, jobVars, histVars>>

\* get_build returns the copy and drops the guard (state.rs 110-111)
GetBuildReturn(o) ==
    /\ obs[o].pc = "locked"
    /\ obs' = [obs EXCEPT ![o] = get_build_return(builds, obs[o])]
    /\ UNCHANGED <<config, capacity, builds, nextId, resp, jobVars, histVars>>

Emit_live(o) ==
    /\ obs[o].pc \in {"copied", "yield", "last"}
    /\ obs' = [obs EXCEPT ![o] = resume([obs[o] EXCEPT !.snap = get_build(builds, obs[o].id)])]
    /\ UNCHANGED <<config, capacity, builds, nextId, resp, jobVars, histVars>>

\* the generator runs from the copy to its next suspension: one event is
\* yielded (build.rs 177, 189), the sleep begins (196), or the stream ends
Emit(o) ==
    /\ obs[o].pc \in {"copied", "yield", "last"}
    /\ obs' = [obs EXCEPT ![o] = resume(obs[o])]
    /\ UNCHANGED <<config, capacity, builds, nextId, resp, jobVars, histVars>>

\* tokio::time::sleep(100 ms) is over (build.rs 196)
Sleep(o) ==
    /\ obs[o].pc = "sleep"
    /\ obs' = [obs EXCEPT ![o].pc = "poll"]
    /\ UNCHANGED <<config, capacity, builds, nextId, resp, jobVars, histVars>>

NextLock ==
    \/ WriteLocked(JobCreate)
    \/ \E id \in Jobs, line \in LineVals : WriteLocked(RegAppend(id, line))
    \/ \E id \in Jobs, artifacts \in ArtifactVals : WriteLocked(JobComplete(id, artifacts))
    \/ \E id \in Jobs, f \in FailVals : WriteLocked(JobFail(id, f[1], f[2]))
    \/ \E id \in Jobs : WriteLocked(JobCancel(id))
    \/ \E n \in 0..MaxKeep, iter \in IterOrders(builds) : WriteLocked(RegCleanup(n, iter))
    \/ \E o \in Observers, id \in Jobs : VerifyLock(o, id)
    \/ \E o \in Observers : VerifyReturn(o)
    \/ \E o \in Observers : GetBuildLock(o)
    \/ \E o \in Observers : GetBuildReturn(o)
    \/ \E o \in Observers : Emit(o)
    \/ \E o \in Observers : Sleep(o)

SpecLock == InitObs /\ [][NextLock]_vars

\* a call of get_build is under way: the handler's or the stream's
InGetBuild(ob) == ob.pc \in {"verify", "locked"}

\* C30: an observer holds a read guard of the registry lock only inside a
\* call of get_build, between taking the guard and returning the copy (or,
\* in the handler, the answer whether the build exists): never while it
\* emits events from the copy, sleeps, or after its stream has ended. So
\* whenever every observer is emitting, sleeping, waiting to poll or done,
\* no guard is held and a writer can take the lock.
C30_NoGuardWhileSleepingOrEmitting ==
    /\ \A o \in Observers : obs[o].guard => InGetBuild(obs[o])
    /\ (\A o \in Observers : ~InGetBuild(obs[o])) => NoReader
    /\ \A o \in Observers :
          obs[o].pc \in {"copied", "yield", "last", "sleep", "done", "notfound"} => ~obs[o].guard

\* one observer sleeps after emitting a line, the other is emitting from its
\* copy, and the record already holds a line more than either has seen
C30_Witness ==
    /\ obs["o1"].pc = "sleep" /\ obs["o1"].events # <<>>
    /\ obs["o2"].pc = "copied" /\ obs["o2"].snap # None
    /\ obs["o1"].id \in DOMAIN builds /\ builds[obs["o1"].id].st = "Running"
    /\ Len(builds[obs["o1"].id].logs) > obs["o1"].last_index
    /\ obs["o2"].id = obs["o1"].id
    /\ Len(builds[obs["o1"].id].logs) > Len(obs["o2"].snap[1].logs)

\* C31: get_build returns a copy of the record as it is at the instant of
\* the call: the copy an observer holds is the registry's record of that
\* instant, whole; it is a state the record really had (Running with a prefix
\* of the lines appended, or the record its terminal transition left); no
\* later append, complete, fail, cancel or reclaim changes it; and every
\* event the observer then emits is a line of the copy or the name of the
\* copy's terminal state, whatever the registry holds by then.
C31_PointInTimeCopy ==
    [][\A o \in Observers :
        /\ (obs[o].pc = "verify" /\ obs'[o].pc # "verify") =>
             obs'[o].pc = IF obs[o].id \in DOMAIN builds THEN "poll" ELSE "notfound"
        /\ (obs[o].pc = "locked" /\ obs'[o].pc = "copied") =>
             obs'[o].snap = get_build(builds, obs[o].id)
        /\ (obs'[o].pc = "copied" /\ obs'[o].snap # None) =>
             LET r == obs'[o].snap[1]
                 id == obs'[o].id
             IN  /\ r.st = "Running" => IsPrefix(r.logs, applog'[id])
                 /\ is_complete(r) => final'[id] = Some(r)
        /\ (obs[o].pc \in {"copied", "yield"} /\ obs'[o].pc \in {"copied", "yield"}) =>
             obs'[o].snap = obs[o].snap
        /\ (obs[o].pc \in {"copied", "yield"} /\ obs'[o].events # obs[o].events) =>
             LET e == LastEvent(obs'[o])
                 passed == IF obs[o].pc = "copied" THEN obs[o].last_index ELSE obs[o].pos
             IN  /\ obs'[o].events = Append(obs[o].events, e)
                 /\ obs[o].snap # None
                 /\ IsLine(e) =>
                        /\ passed < Len(logs_of(obs[o].snap[1]))
                        /\ e.data = logs_of(obs[o].snap[1])[passed + 1]
                 /\ IsComplete(e) =>
                        /\ is_complete(obs[o].snap[1])
                        /\ passed >= Len(logs_of(obs[o].snap[1]))
                        /\ e.data = status_name(obs[o].snap[1])
        /\ (obs[o].pc \in {"copied", "yield"} /\ obs[o].snap # None
               /\ obs'[o].pc \in {"sleep", "done"}) =>
             /\ ~is_complete(obs[o].snap[1])
             /\ obs'[o].pc = "sleep" /\ obs'[o].events = obs[o].events
             /\ obs'[o].last_index = Len(logs_of(obs[o].snap[1]))]_vars

\* an observer holds a copy taken while the record was Running with one
\* line; the record has since got a second line, been failed and evicted
C31_Witness ==
    \E o \in Observers :
        /\ obs[o].pc = "copied" /\ obs[o].snap # None
        /\ obs[o].snap[1].st = "Running" /\ Len(obs[o].snap[1].logs) = 1
        /\ obs[o].id \notin DOMAIN builds
        /\ final[obs[o].id] # None
        /\ final[obs[o].id][1].st = "Failed" /\ Len(final[obs[o].id][1].logs) = 2

(***************************************************************************)
(* Claims on the runner's result, checked under SpecRun                    *)
(***************************************************************************)
\* the lines the process of job j has written so far: those the runner has
\* read and those still in the pipes
WrittenLines(j) == Range(rlogs[j]) \cup Range(proc[j].out) \cup Range(proc[j].err)

\* C32: when the runner has read every line of an exited process and at
\* least one line of the output, on either stream, carries the artifact
\* marker, the runner's result records an artifact directory, and the
\* Success record of a build holds it in its artifacts.
C32_MarkerOnEitherStream ==
    \A j \in Jobs :
        (/\ RunnerReturned(j)
         /\ Len(rlogs[j]) = proc[j].nw
         /\ \E line \in WrittenLines(j) : contains(line, BuildDirMarker)) =>
            /\ build_dir[j] # None
            /\ (j \in DOMAIN builds /\ builds[j].st = "Success" /\ params[j][1].kind = "build") =>
                 builds[j].artifacts # <<>>

(***************************************************************************)
(* SpecValid: the job-start requests whose project or workspace may be the *)
(* empty string, with and without an allowlist, and the job that starts.   *)
(***************************************************************************)
\* PathBuf::from(""): no component; it does not resolve
EmptyPath == <<>>

ValidRequests == [project : {None, Some(EmptyPath), Some(InPath)},
                  workspace : {None, Some(EmptyPath), Some(InPath)},
                  scheme : SchemeNames]

InitValid ==
    /\ config \in {[allowed_paths |-> a, api_key |-> None] : a \in {None, Some(<<AllowedRoot>>)}}
    /\ builds = <<>>
    /\ nextId = 1
    /\ capacity = ChanCap
    /\ resp = None
    /\ pc = [j \in Jobs |-> "idle"]
    /\ proc = [j \in Jobs |-> NoProc]
    /\ rlogs = [j \in Jobs |-> <<>>]
    /\ params = [j \in Jobs |-> None]
    /\ build_dir = [j \in Jobs |-> None]
    /\ chan = [j \in Jobs |-> <<>>]
    /\ txOpen = [j \in Jobs |-> FALSE]
    /\ coll = [j \in Jobs |-> [pc |-> "none"]]
    /\ obs = <<>>
    /\ InitHistory

NextValid ==
    \/ \E req \in ValidRequests : StartBuild(req)
    \/ \E req \in ValidRequests : StartTest(req)
    \/ \E j \in Jobs : RunJobTask(j)
    \/ \E j \in Jobs : SpawnOk(j)
    \/ \E j \in Jobs : SpawnFail(j)
    \/ \E j \in Jobs, status \in ExitStatuses : ProcExit(j, status)
    \/ \E j \in Jobs : ReadStdout(j)
    \/ \E j \in Jobs : WaitExit(j)
    \/ \E j \in Jobs : WaitErr(j)
    \/ \E j \in Jobs : Finalize(j)
    \/ \E j \in Jobs : CollRecv(j)

SpecValid == InitValid /\ [][NextValid]_vars

\* C33: a job-start request that names no non-empty project or workspace
\* path (neither given, or only empty ones) is answered InvalidRequest and
\* starts no job.
C33_NonEmptyPathRequired ==
    [][\A kind \in JobKinds, req \in ValidRequests :
        (start_job(kind, req) /\ PathsOf(req) \subseteq {EmptyPath}) =>
            /\ ~resp'.ok /\ resp'.error = "InvalidRequest"
            /\ builds' = builds]_vars

(***************************************************************************)
(* SpecTwo: two jobs at once, each with its own task, process, channel and *)
(* collector (build.rs 61-63, 77-88), over the one registry; every line    *)
(* carries the job whose process wrote it. The processes write to both     *)
(* streams and end with success or failure, a spawn or a wait may fail,    *)
(* and a job is cancelled while it runs (the cancellation of a job that    *)
(* has ended is in Spec).                                                  *)
(***************************************************************************)
TwoJobs == {1, 2}

InitTwo ==
    /\ config = [allowed_paths |-> Some(<<AllowedRoot>>), api_key |-> None]
    /\ builds = <<>>
    /\ nextId = 1
    /\ capacity = ChanCap
    /\ resp = None
    /\ pc = [j \in TwoJobs |-> "idle"]
    /\ proc = [j \in TwoJobs |-> NoProc]
    /\ rlogs = [j \in TwoJobs |-> <<>>]
    /\ params = [j \in TwoJobs |-> None]
    /\ build_dir = [j \in TwoJobs |-> None]
    /\ chan = [j \in TwoJobs |-> <<>>]
    /\ txOpen = [j \in TwoJobs |-> FALSE]
    /\ coll = [j \in TwoJobs |-> [pc |-> "none"]]
    /\ obs = <<>>
    /\ InitHistory

NextTwo ==
    \/ StartBuild([project |-> Some(InPath), workspace |-> None, scheme |-> "App"])
    \/ \E j \in TwoJobs : RunJobTask(j)
    \/ \E j \in TwoJobs : SpawnOk(j)
    \/ \E j \in TwoJobs : SpawnFail(j)
    \/ \E j \in TwoJobs, stream \in {"stdout", "stderr"} : ProcWrite(j, stream, {ErrorMarker})
    \/ \E j \in TwoJobs, status \in {Some(0), Some(65)} : ProcExit(j, status)
    \/ \E j \in TwoJobs : ReadStdout(j)
    \/ \E j \in TwoJobs : ReadStderr(j)
    \/ \E j \in TwoJobs : WaitExit(j)
    \/ \E j \in TwoJobs : WaitErr(j)
    \/ \E j \in TwoJobs : Finalize(j)
    \/ \E j \in TwoJobs : CollRecv(j)
    \/ \E j \in TwoJobs : CollAppend(j)
    \/ \E id \in RunningIds(builds) : CancelBuild(id)

SpecTwo == InitTwo /\ [][NextTwo]_vars

\* the lines of job j only
OwnLines(j, lines) == \A i \in DOMAIN lines : lines[i].job = j

\* C34: a step of one job's collector, of its finalization or of its
\* cancellation leaves the record of every other id as it was, and at every
\* moment the lines in a job's record, in its channel, in its runner's log
\* and in the error of its Failed record are lines its own process wrote.
C34_JobsDoNotInterfere ==
    [][/\ \A j \in TwoJobs :
            (CollAppend(j) \/ Finalize(j) \/ CancelBuild(j)) =>
                \A id \in DOMAIN builds \ {j} : id \in DOMAIN builds' /\ builds'[id] = builds[id]
       /\ \A j \in TwoJobs :
            /\ OwnLines(j, chan'[j]) /\ OwnLines(j, rlogs'[j])
            /\ j \in DOMAIN builds' =>
                 /\ OwnLines(j, logs_of(builds'[j]))
                 /\ (builds'[j].st = "Failed" /\ "msg" \notin DOMAIN builds'[j].error) =>
                      builds'[j].error.job = j]_vars

\* both jobs ran at once: the first was completed while the second was
\* running with a line of its own process in its record, and each record
\* still holds the line of its own process
C34_Witness ==
    /\ DOMAIN builds = {1, 2}
    /\ builds[1].st = "Success" /\ Len(builds[1].logs) = 1
    /\ builds[2].st = "Running" /\ Len(builds[2].logs) = 1
    /\ proc[2].st = "running" /\ took[1] = <<"complete">>

\* the lines of a pipe are in the order of their writing (a line's number n
\* is its place among the writes of its process)
InWriteOrder(pipe) == \A i, k \in DOMAIN pipe : i < k => pipe[i].n < pipe[k].n

\* the step took the oldest line of the pipe and put it at the end of both
\* the sink's history and the captured log
TookOldest(j, pipe, pipe2) ==
    /\ pipe # <<>> /\ pipe2 = Tail(pipe)
    /\ sunk'[j] = Append(sunk[j], Head(pipe))
    /\ rlogs'[j] = Append(rlogs[j], Head(pipe))

\* C35: at every moment the lines the sink was called with, in call order,
\* are the runner's captured log (which is dropped, no line added to either,
\* when child.wait() fails); and each stream is read in the order in
\* which the process wrote to it: a pipe holds its lines in write order, the
\* process adds at its end a line newer than all it wrote before, and a read
\* takes the pipe's oldest line, the other pipe untouched.
C35_SinkOrderIsLogOrder ==
    [][\A j \in Jobs :
        /\ sunk'[j] = IF proc'[j].waited = "err" THEN sunk[j] ELSE rlogs'[j]
        /\ proc'[j].waited = "err" => rlogs'[j] = <<>>
        /\ InWriteOrder(proc'[j].out) /\ InWriteOrder(proc'[j].err)
        /\ \A i \in DOMAIN rlogs'[j] : rlogs'[j][i].n <= proc'[j].nw
        /\ \A i \in DOMAIN proc'[j].out : proc'[j].out[i].n <= proc'[j].nw
        /\ \A i \in DOMAIN proc'[j].err : proc'[j].err[i].n <= proc'[j].nw
        /\ ((rlogs'[j] # rlogs[j] /\ proc'[j].waited # "err") \/ sunk'[j] # sunk[j]) =>
             \/ TookOldest(j, proc[j].out, proc'[j].out) /\ proc'[j].err = proc[j].err
             \/ TookOldest(j, proc[j].err, proc'[j].err) /\ proc'[j].out = proc[j].out
        /\ proc'[j].nw # proc[j].nw =>
             /\ proc'[j].nw = proc[j].nw + 1 /\ rlogs'[j] = rlogs[j]
             /\ \/ /\ proc'[j].out # <<>>
                   /\ proc'[j].out = Append(proc[j].out, proc'[j].out[Len(proc'[j].out)])
                   /\ proc'[j].out[Len(proc'[j].out)].n = proc'[j].nw
                   /\ proc'[j].err = proc[j].err
                \/ /\ proc'[j].err # <<>>
                   /\ proc'[j].err = Append(proc[j].err, proc'[j].err[Len(proc'[j].err)])
                   /\ proc'[j].err[Len(proc'[j].err)].n = proc'[j].nw
                   /\ proc'[j].out = proc[j].out]_vars

\* a line of stderr was read before an older line of stdout: the captured
\* log interleaves the streams out of write order, each stream in its own
C35_Witness ==
    /\ Len(sunk[1]) = 2 /\ sunk[1] = rlogs[1]
    /\ sunk[1][1].n > sunk[1][2].n

(***************************************************************************)
(* Claims on the log collector, checked under Spec and SpecPipe            *)
(***************************************************************************)
\* s is t with some elements left out: same order, no element more often
RECURSIVE IsSubseq(_, _)
IsSubseq(s, t) ==
    IF s = <<>> THEN TRUE
    ELSE IF t = <<>> THEN FALSE
    ELSE IF Head(s) = Head(t) THEN IsSubseq(Tail(s), Tail(t))
    ELSE IsSubseq(s, Tail(t))

(***************************************************************************)
(* SpecChan: one job whose channel holds WideChanCap lines and whose       *)
(* process writes up to MaxChanLines lines to its two streams, so that the *)
(* queue holds several lines at once, fills, and drops a line between two  *)
(* it keeps. The job runs from the accepted request to the finalized       *)
(* record and the end of the collector; the spawn or the wait may fail and *)
(* the job may be cancelled at any time. The lines carry no marker (they   *)
(* differ by their number).                                                *)
(***************************************************************************)
InitChan ==
    /\ config = [allowed_paths |-> Some(<<AllowedRoot>>), api_key |-> None]
    /\ builds = <<>>
    /\ nextId = 1
    /\ capacity = WideChanCap
    /\ resp = None
    /\ pc = [j \in Jobs |-> "idle"]
    /\ proc = [j \in Jobs |-> NoProc]
    /\ rlogs = [j \in Jobs |-> <<>>]
    /\ params = [j \in Jobs |-> None]
    /\ build_dir = [j \in Jobs |-> None]
    /\ chan = [j \in Jobs |-> <<>>]
    /\ txOpen = [j \in Jobs |-> FALSE]
    /\ coll = [j \in Jobs |-> [pc |-> "none"]]
    /\ obs = <<>>
    /\ InitHistory

NextChan ==
    \/ StartBuild([project |-> Some(InPath), workspace |-> None, scheme |-> "App"])
    \/ \E j \in Jobs : RunJobTask(j)
    \/ \E j \in Jobs : SpawnOk(j)
    \/ \E j \in Jobs : SpawnFail(j)
    \/ \E j \in Jobs, stream \in {"stdout", "stderr"} : ProcWriteUpTo(j, stream, {}, MaxChanLines)
    \/ \E j \in Jobs, status \in ExitStatuses : ProcExit(j, status)
    \/ \E j \in Jobs : ReadStdout(j)
    \/ \E j \in Jobs : ReadStderr(j)
    \/ \E j \in Jobs : WaitExit(j)
    \/ \E j \in Jobs : WaitErr(j)
    \/ \E j \in Jobs : Finalize(j)
    \/ \E j \in Jobs : CollRecv(j)
    \/ \E j \in Jobs : CollAppend(j)
    \/ \E id \in Jobs : CancelBuild(id)

SpecChan == InitChan /\ [][NextChan]_vars

\* the lines the runner has captured for job j so far: its log, and once
\* the log is dropped with the runner's Err, the lines it held (those the
\* sink was called with)
Captured(j) == IF proc[j].waited = "err" THEN sunk[j] ELSE rlogs[j]

\* C36: in every reachable state the logs of a job's record are the runner's
\* captured log of that job with some lines left out: no foreign line, no
\* line more often than captured, no reordering, whatever the full queue or
\* the finalization dropped; and so are the lines on their way to the
\* record, those in the queue and the one the collector holds.
C36_LogsSubsequenceOfCaptured ==
    \A j \in Jobs :
        /\ j \in DOMAIN builds => IsSubseq(logs_of(builds[j]), Captured(j))
        /\ IsSubseq(chan[j], Captured(j))
        /\ (j \in DOMAIN builds /\ builds[j].st = "Running") =>
              IsSubseq(builds[j].logs
                         \o (IF coll[j].pc = "append" THEN <<coll[j].line>> ELSE <<>>)
                         \o chan[j],
                       Captured(j))

\* the process wrote four lines; the queue held the first two at once, the
\* third found it full and was dropped, the fourth found room again: the
\* record of the failed job holds the first, the second and the fourth, and
\* the collector has ended
C36_Witness ==
    /\ 1 \in DOMAIN builds /\ builds[1].st = "Failed"
    /\ Len(rlogs[1]) = 4
    /\ builds[1].logs = <<rlogs[1][1], rlogs[1][2], rlogs[1][4]>>
    /\ coll[1].pc = "exit" /\ ~late[1]

\* C37: once the sending side of a job's queue is dropped (the runner has
\* returned or failed to spawn) the collector eventually exits; it exits
\* only with the queue empty and the sender dropped; and after it has exited
\* it stays exited and no line is appended for the job any more.
C37_CollectorTerminates ==
    /\ \A j \in Jobs : (coll[j].pc # "none" /\ ~txOpen[j]) ~> (coll[j].pc = "exit")
    /\ [][\A j \in Jobs :
            /\ coll'[j].pc = "exit" => (chan'[j] = <<>> /\ ~txOpen'[j])
            /\ coll[j].pc = "exit" =>
                 /\ coll'[j].pc = "exit"
                 /\ applog'[j] = applog[j]
                 /\ (j \in DOMAIN builds /\ j \in DOMAIN builds') =>
                      logs_of(builds'[j]) = logs_of(builds[j])]_vars

\* the collector has exited after discarding a line: the record was already
\* finalized when the line was appended
C37_Witness ==
    /\ coll[1].pc = "exit" /\ late[1] /\ chan[1] = <<>>
    /\ Len(rlogs[1]) > Len(applog[1])

(***************************************************************************)
(* SpecCreate: the registry's methods called directly as in SpecReg, with  *)
(* one value for each argument and without reclamation, and create_build   *)
(* also called with an id that was issued before (no caller in the service *)
(* does so: start_build and start_test pass a new uuid).                   *)
(***************************************************************************)
CreateAgain(id) ==
    /\ id < nextId
    /\ builds' = create_build(builds, id)
    /\ late' = LateAfter(builds, id)
    /\ UNCHANGED <<config, capacity, nextId, resp, jobVars, obs, applog, took, final, acks, sunk>>

NextCreate ==
    \/ RegCreate
    \/ \E id \in Ids : CreateAgain(id)
    \/ \E id \in Ids : RegAppend(id, "a")
    \/ \E id \in Ids : RegComplete(id, <<>>)
    \/ \E id \in Ids : RegFail(id, "Build failed", Some(65))
    \/ \E id \in Ids : RegCancel(id)

SpecCreate == InitReg /\ [][NextCreate]_vars

\* C38: create_build stores a Running record with empty logs whatever the
\* registry holds for the id: a present record, terminal or not, is replaced
\* and its logs are gone, and every other record is untouched; the id the
\* driver creates next is never in the registry.
C38_CreateReplaces ==
    [][/\ \A id \in Ids :
            CreateAgain(id) =>
                /\ DOMAIN builds' = DOMAIN builds \cup {id}
                /\ builds'[id] = Running(<<>>)
                /\ \A other \in DOMAIN builds \ {id} : builds'[other] = builds[other]
       /\ nextId' \notin DOMAIN builds']_vars

\* a record that had become Failed with a line in its logs is Running with
\* empty logs again
C38_Witness ==
    \E id \in DOMAIN builds :
        /\ builds[id] = Running(<<>>)
        /\ late[id] /\ applog[id] # <<>>


\* C39: the allowlist fails closed. With an allowlist configured, a checked
\* path that canonicalize cannot resolve is rejected; a path is accepted only
\* through a root that canonicalize resolves, so a list whose roots all fail
\* to resolve accepts nothing; and the empty list accepts nothing.
C39_AllowlistFailsClosed ==
    (resp # None /\ config.allowed_paths # None) =>
        LET allowed == config.allowed_paths[1]
        IN  /\ canonicalize(resp.path) = None => ~resp.allowed
            /\ resp.allowed => \E i \in DOMAIN allowed : canonicalize(allowed[i]) # None
            /\ (\A i \in DOMAIN allowed : canonicalize(allowed[i]) = None) => ~resp.allowed
            /\ allowed = <<>> => ~resp.allowed

\* C39 witness: the only root does not exist, and the project that exists
\* in the allowed directory was checked and rejected.
C39_Witness ==
    /\ config.allowed_paths = Some(<<MissingRoot>>)
    /\ resp = [path |-> InPath, allowed |-> FALSE]


\* C40: once the runner has returned, its success flag is true exactly when
\* the exit code it returns is 0, and for a process that ended without an
\* exit code it returns -1 with success false; the status query therefore
\* reports exit code 0 for every Success record and never for a Failed one.
C40_SuccessIffExitZero ==
    /\ \A j \in Jobs :
           RunnerReturned(j) =>
               /\ success_of(proc[j].code) <=> exit_code_of(proc[j].code) = 0
               /\ proc[j].code = None =>
                      /\ exit_code_of(proc[j].code) = -1
                      /\ ~success_of(proc[j].code)
    /\ \A id \in DOMAIN builds :
           /\ builds[id].st = "Success" =>
                  get_build_handler(builds, id).body.exit_code = Some(0)
           /\ builds[id].st = "Failed" =>
                  get_build_handler(builds, id).body.exit_code # Some(0)

\* C40 witness: the process of job 1 ended without an exit code, the job was
\* finalized as Failed and the status query reports the sentinel.
C40_Witness ==
    /\ RunnerReturned(1) /\ proc[1].code = None
    /\ 1 \in DOMAIN builds /\ builds[1].st = "Failed"
    /\ get_build_handler(builds, 1).body.exit_code = Some(-1)

====
